---- MODULE Spec2Model ----
(***************************************************************************)
(* Model of the rich-content renderer of the nexa frontend                 *)
(* (frontend/src/components/rich_content.rs) and of the chat page code     *)
(* that feeds it.                                                          *)
(*                                                                         *)
(* Text is a sequence of one-character strings.  Indices are 0-based as in *)
(* the source: At(s, j) is s[j], Slice(s, a, b) is s[a..b].                *)
(*                                                                         *)
(* HTML output is a sequence of tokens whose concatenation (Flat) is the   *)
(* string the code builds.  A token is                                     *)
(*   - a one-character string: a character copied from the input as is,    *)
(*   - an entity ("&lt;", "&amp;", ...): what an escape function made of   *)
(*     one input character,                                                *)
(*   - any longer string: a piece of a string literal / format! template   *)
(*     of the source, cut at the template's placeholders.                  *)
(* So a raw "<" that comes from the input is the token "<", and a "<" the  *)
(* renderer itself writes is always inside a longer token.                 *)
(***************************************************************************)
EXTENDS Integers, Sequences, FiniteSets, TLC

VARIABLES
    input,      \* the text handed to the renderer / inline processor (msg.text)
    lines,      \* render_markdown_to_html: lines
    i,          \* render_markdown_to_html: i (0-based line cursor)
    in_list,    \* render_markdown_to_html: in_list
    list_type,  \* render_markdown_to_html: list_type
    result,     \* render_markdown_to_html / process_inline: result
    pc,         \* where the call is: "loop", "inline", "stream", "done"
    trace,      \* history: one record per iteration of the line loop
    pending,    \* chat stream: characters of the answer not yet received
    streaming,  \* ChatMessage.streaming of the assistant message
    view,       \* what RichContent rendered for the assistant message
    buffer,     \* stream_chat: buffer
    events,     \* history: the events stream_chat handed to on_event, in order
    messages,   \* ChatState.messages: the conversation on screen
    sessions,   \* ChatState.sessions: the local list of sessions
    active_session_id,  \* ChatState.active_session_id
    loading,    \* Chat: loading
    tasks,      \* the tasks spawned by on_send and on_regenerate
    fetches,    \* the ids of the fetch tasks spawned by on_select_session
    server,     \* the sessions stored by the server
    counter     \* new_id: COUNTER

vars == <<input, lines, i, in_list, list_type, result, pc, trace, pending, streaming, view,
          buffer, events,
          messages, sessions, active_session_id, loading, tasks, fetches, server, counter>>

\* The variables of the chat page
chat_vars == <<messages, sessions, active_session_id, loading, tasks, fetches, server, counter>>

\* The variables of stream_chat
sse_vars == <<buffer, events>>

-----------------------------------------------------------------------------
(* Bounds of the model. *)

\* Longest document, in lines, over all the lines of BlockLines.
MaxLines == 2
\* Longest document, in lines, over the list lines.
MaxListLines == 4
\* Most lines after the opening line of a fence or display-math block.
MaxBodyLines == 3
\* Longest document, in lines, over the table lines.
MaxTableLines == 3
\* Longest document, in lines, over the paragraph lines.
MaxParaLines == 3
\* Most blocks of a response body over all the blocks of SseBlocks.
MaxSseBlocks == 2
\* Most blocks of a response body over the blocks of SseCoreBlocks.
MaxSseCoreBlocks == 3
\* Most streams one run of the chat page starts.
MaxStreams == 2
\* Most events one stream delivers.
MaxStreamEvents == 1
\* Most session actions (select, new chat, delete) of one run of the chat page.
MaxSessionActions == 2
\* Most ids new_id hands out after the page is loaded.
MaxNewIds == 1
\* Most pieces of a streamed answer.
MaxPieces == 2
\* Most characters of one token of the stream.
MaxTokenLen == 2
\* Longest text over the escaping alphabet given to process_inline.
MaxEscLen == 4
\* Longest text over the emphasis alphabet given to process_inline.
MaxEmphLen == 7
\* Longest alt / url / math source in the attribute texts.
MaxAttrLen == 2

-----------------------------------------------------------------------------
(* Text helpers: Rust's str / slice methods on sequences of characters. *)

None == -1

\* The backtick character.  The lexer of the TLA+ tools cannot hold a backtick
\* in a string literal, so the character is written BACKTICK everywhere and is
\* represented by a character that occurs in no modelled text.
BACKTICK == "@"

At(s, j) == s[j + 1]

Slice(s, a, b) == SubSeq(s, a + 1, b)

SliceFrom(s, a) == SubSeq(s, a + 1, Len(s))

SetMin(S) == CHOOSE x \in S : \A y \in S : x <= y

SetMax(S) == CHOOSE x \in S : \A y \in S : x >= y

is_whitespace(c) == c \in {" ", "\t", "\r"}

is_ascii_digit(c) == c \in {"0", "1", "2", "3", "4", "5", "6", "7", "8", "9"}

\* str::trim_start
trim_start(s) ==
    LET keep == {j \in 0..(Len(s) - 1) : ~is_whitespace(At(s, j))}
    IN  IF keep = {} THEN <<>> ELSE SliceFrom(s, SetMin(keep))

\* str::trim_end
trim_end(s) ==
    LET keep == {j \in 0..(Len(s) - 1) : ~is_whitespace(At(s, j))}
    IN  IF keep = {} THEN <<>> ELSE Slice(s, 0, SetMax(keep) + 1)

\* str::trim
trim(s) == trim_end(trim_start(s))

\* str::starts_with
starts_with(s, p) == Len(s) >= Len(p) /\ Slice(s, 0, Len(p)) = p

\* str::ends_with
ends_with(s, p) == Len(s) >= Len(p) /\ SliceFrom(s, Len(s) - Len(p)) = p

\* str::find: the first position where p occurs in s, or None
find(s, p) ==
    LET hits == {j \in 0..(Len(s) - Len(p)) : Slice(s, j, j + Len(p)) = p}
    IN  IF hits = {} THEN None ELSE SetMin(hits)

\* str::contains
contains(s, p) == find(s, p) # None

\* str::trim_start_matches(p): strip every leading repetition of p
RECURSIVE trim_start_matches(_, _)
trim_start_matches(s, p) ==
    IF Len(p) > 0 /\ starts_with(s, p)
    THEN trim_start_matches(SliceFrom(s, Len(p)), p)
    ELSE s

\* str::trim_end_matches(p): strip every trailing repetition of p
RECURSIVE trim_end_matches(_, _)
trim_end_matches(s, p) ==
    IF Len(p) > 0 /\ ends_with(s, p)
    THEN trim_end_matches(Slice(s, 0, Len(s) - Len(p)), p)
    ELSE s

\* str::trim_matches(c)
trim_matches(s, c) == trim_end_matches(trim_start_matches(s, <<c>>), <<c>>)

\* str::strip_prefix(p).unwrap_or(dflt)
strip_prefix_or(s, p, dflt) == IF starts_with(s, p) THEN SliceFrom(s, Len(p)) ELSE dflt

\* str::strip_suffix(p).unwrap_or(dflt)
strip_suffix_or(s, p, dflt) == IF ends_with(s, p) THEN Slice(s, 0, Len(s) - Len(p)) ELSE dflt

\* str::split(c): the pieces between the occurrences of c (always at least one)
RECURSIVE split(_, _)
split(s, c) ==
    LET p == find(s, <<c>>)
    IN  IF p = None THEN <<s>>
        ELSE <<Slice(s, 0, p)>> \o split(SliceFrom(s, p + 1), c)

\* str::lines: split at "\n"; a final empty piece is no line; a trailing "\r"
\* of a line is dropped
RECURSIVE str_lines(_)
str_lines(s) ==
    IF s = <<>> THEN <<>>
    ELSE LET p    == find(s, <<"\n">>)
             raw  == IF p = None THEN s ELSE Slice(s, 0, p)
             line == IF ends_with(raw, <<"\r">>) THEN Slice(raw, 0, Len(raw) - 1) ELSE raw
         IN  IF p = None THEN <<line>>
             ELSE <<line>> \o str_lines(SliceFrom(s, p + 1))

\* The string a sequence of tokens stands for.
RECURSIVE Flat(_)
Flat(toks) == IF toks = <<>> THEN "" ELSE Head(toks) \o Flat(Tail(toks))

\* Concatenation of a sequence of sequences.
RECURSIVE Concat(_)
Concat(ss) == IF ss = <<>> THEN <<>> ELSE Head(ss) \o Concat(Tail(ss))

-----------------------------------------------------------------------------
(* Escaping: rich_content.rs 731-750. *)

\* str::replace(c, ent) for a one-character pattern
replace(s, c, ent) == [k \in 1..Len(s) |-> IF s[k] = c THEN ent ELSE s[k]]

escape_html(s) ==
    replace(replace(replace(replace(s, "&", "&amp;"), "<", "&lt;"), ">", "&gt;"), "\"", "&quot;")

escape_html_attr(s) == replace(escape_html(s), "'", "&#39;")

\* A fault of escape_html_char: the double quote is not replaced
escape_html_char_keeps_quote(c) ==
    CASE c = "&"  -> <<"&amp;">>
      [] c = "<"  -> <<"&lt;">>
      [] c = ">"  -> <<"&gt;">>
      [] OTHER    -> <<c>>

escape_html_char(c) ==
    CASE c = "&"  -> <<"&amp;">>
      [] c = "<"  -> <<"&lt;">>
      [] c = ">"  -> <<"&gt;">>
      [] c = "\"" -> <<"&quot;">>
      [] OTHER    -> <<c>>

-----------------------------------------------------------------------------
(* Closing-delimiter search: rich_content.rs 690-729. *)

find_closing(chars, start, delim) ==
    LET hits == {j \in start..(Len(chars) - 1) : At(chars, j) = delim}
    IN  IF hits = {} THEN None ELSE SetMin(hits)

\* chars.len().saturating_sub(1) is the exclusive upper end of j
find_double_closing(chars, start, delim) ==
    LET hits == {j \in start..(Len(chars) - 2) :
                    At(chars, j) = delim /\ At(chars, j + 1) = delim}
    IN  IF hits = {} THEN None ELSE SetMin(hits)

find_triple_closing(chars, start, delim) ==
    LET hits == {j \in start..(Len(chars) - 3) :
                    /\ At(chars, j) = delim
                    /\ At(chars, j + 1) = delim
                    /\ At(chars, j + 2) = delim}
    IN  IF hits = {} THEN None ELSE SetMin(hits)

\* Some((text, url, end)) as a record with ok = TRUE, None as [ok |-> FALSE]
parse_link_or_image(chars, start) ==
    IF At(chars, start) # "[" THEN [ok |-> FALSE]
    ELSE LET close_bracket == find_closing(chars, start + 1, "]")
         IN  IF close_bracket = None THEN [ok |-> FALSE]
             ELSE IF close_bracket + 1 >= Len(chars) \/ At(chars, close_bracket + 1) # "("
                  THEN [ok |-> FALSE]
             ELSE LET close_paren == find_closing(chars, close_bracket + 2, ")")
                  IN  IF close_paren = None THEN [ok |-> FALSE]
                      ELSE [ok   |-> TRUE,
                            text |-> Slice(chars, start + 1, close_bracket),
                            url  |-> Slice(chars, close_bracket + 2, close_paren),
                            end  |-> close_paren + 1]

-----------------------------------------------------------------------------
(* Inline processor: rich_content.rs 516-688.                              *)
(* Each rule of the loop body is an operator that gives, for the cursor ci, *)
(* either NoMatch or the tokens it pushes and the cursor it continues at.  *)

NoMatch == [ok |-> FALSE]

Match(out, next) == [ok |-> TRUE, out |-> out, next |-> next]

RECURSIVE process_inline(_)

\* A fault of the <br> passthrough: the tag is pushed and the cursor stays
rule_br_stays(chars, ci) ==
    IF /\ ci + 3 < Len(chars)
       /\ At(chars, ci) = "<"
       /\ At(chars, ci + 1) = "b"
       /\ At(chars, ci + 2) = "r"
       /\ At(chars, ci + 3) = ">"
    THEN Match(<<"<br>">>, ci)
    ELSE NoMatch

\* HTML <br> passthrough (523-528)
rule_br(chars, ci) ==
    IF /\ ci + 3 < Len(chars)
       /\ At(chars, ci) = "<"
       /\ At(chars, ci + 1) = "b"
       /\ At(chars, ci + 2) = "r"
       /\ At(chars, ci + 3) = ">"
    THEN Match(<<"<br>">>, ci + 4)
    ELSE NoMatch

\* A fault of the inline code rule: a backtick that nothing closes opens a
\* code span that runs to the end of the text
rule_code_runs_to_end(chars, ci) ==
    IF At(chars, ci) = BACKTICK
    THEN LET end == find_closing(chars, ci + 1, BACKTICK)
             stop == IF end # None THEN end ELSE Len(chars)
         IN  Match(<<"<code>">> \o escape_html(Slice(chars, ci + 1, stop)) \o <<"</code>">>,
                   IF end # None THEN end + 1 ELSE stop)
    ELSE NoMatch

\* Inline code (530-538)
rule_code(chars, ci) ==
    IF At(chars, ci) = BACKTICK
    THEN LET end == find_closing(chars, ci + 1, BACKTICK)
         IN  IF end # None
             THEN Match(<<"<code>">> \o escape_html(Slice(chars, ci + 1, end)) \o <<"</code>">>,
                        end + 1)
             ELSE NoMatch
    ELSE NoMatch

\* The two katex-inline format! calls (554-558, 569-573)
katex_inline(latex) ==
    <<"<span class=\"katex-inline\" data-latex=\"">> \o escape_html_attr(latex)
        \o <<"\">">> \o escape_html(latex) \o <<"</span>">>

\* Inline LaTeX \(...\) (540-562)
rule_latex_paren(chars, ci) ==
    IF At(chars, ci) = "\\" /\ ci + 1 < Len(chars) /\ At(chars, ci + 1) = "("
    THEN LET start_pos == ci + 2
             hits == {e \in start_pos..(Len(chars) - 2) :
                         At(chars, e) = "\\" /\ At(chars, e + 1) = ")"}
         IN  IF hits # {}
             THEN LET end_pos == SetMin(hits)
                  IN  Match(katex_inline(Slice(chars, start_pos, end_pos)), end_pos + 2)
             ELSE NoMatch
    ELSE NoMatch

\* Inline LaTeX $...$ (564-578)
rule_latex_dollar(chars, ci) ==
    IF At(chars, ci) = "$" /\ (ci + 1 < Len(chars) /\ At(chars, ci + 1) # "$")
    THEN LET end == find_closing(chars, ci + 1, "$")
         IN  IF end # None /\ end > ci + 1
             THEN Match(katex_inline(Slice(chars, ci + 1, end)), end + 1)
             ELSE NoMatch
    ELSE NoMatch

\* Bold + italic ***...*** (580-588)
rule_bold_italic(chars, ci) ==
    IF /\ ci + 2 < Len(chars)
       /\ At(chars, ci) = "*"
       /\ At(chars, ci + 1) = "*"
       /\ At(chars, ci + 2) = "*"
    THEN LET end == find_triple_closing(chars, ci + 3, "*")
         IN  IF end # None
             THEN Match(<<"<strong><em>">> \o process_inline(Slice(chars, ci + 3, end))
                            \o <<"</em></strong>">>,
                        end + 3)
             ELSE NoMatch
    ELSE NoMatch

\* A fault of the bold rule: the inner slice starts one character early and
\* takes the second delimiter character with it
rule_bold_keeps_delimiter(chars, ci, delim) ==
    IF ci + 1 < Len(chars) /\ At(chars, ci) = delim /\ At(chars, ci + 1) = delim
    THEN LET end == find_double_closing(chars, ci + 2, delim)
         IN  IF end # None
             THEN Match(<<"<strong>">> \o process_inline(Slice(chars, ci + 1, end))
                            \o <<"</strong>">>,
                        end + 2)
             ELSE NoMatch
    ELSE NoMatch

\* Bold **...** (590-598) and __...__ (600-608)
rule_bold(chars, ci, delim) ==
    IF ci + 1 < Len(chars) /\ At(chars, ci) = delim /\ At(chars, ci + 1) = delim
    THEN LET end == find_double_closing(chars, ci + 2, delim)
         IN  IF end # None
             THEN Match(<<"<strong>">> \o process_inline(Slice(chars, ci + 2, end))
                            \o <<"</strong>">>,
                        end + 2)
             ELSE NoMatch
    ELSE NoMatch

\* Italic *...* (610-620) and _..._ (622-632)
rule_italic(chars, ci, delim) ==
    IF /\ At(chars, ci) = delim
       /\ (ci + 1 < Len(chars) /\ At(chars, ci + 1) # delim /\ At(chars, ci + 1) # " ")
    THEN LET end == find_closing(chars, ci + 1, delim)
         IN  IF end # None /\ end > ci + 1
             THEN Match(<<"<em>">> \o process_inline(Slice(chars, ci + 1, end)) \o <<"</em>">>,
                        end + 1)
             ELSE NoMatch
    ELSE NoMatch

\* Image ![alt](url) (634-645)
rule_image(chars, ci) ==
    IF At(chars, ci) = "!" /\ ci + 1 < Len(chars) /\ At(chars, ci + 1) = "["
    THEN LET p == parse_link_or_image(chars, ci + 1)
         IN  IF p.ok
             THEN Match(<<"<img src=\"">> \o escape_html_attr(p.url)
                            \o <<"\" alt=\"">> \o escape_html(p.text)
                            \o <<"\" class=\"chat-image\" loading=\"lazy\">">>,
                        p.end)
             ELSE NoMatch
    ELSE NoMatch

\* Link [text](url) (647-658)
rule_link(chars, ci) ==
    IF At(chars, ci) = "["
    THEN LET p == parse_link_or_image(chars, ci)
         IN  IF p.ok
             THEN Match(<<"<a href=\"">> \o escape_html_attr(p.url)
                            \o <<"\" target=\"_blank\" rel=\"noopener\">">>
                            \o process_inline(p.text) \o <<"</a>">>,
                        p.end)
             ELSE NoMatch
    ELSE NoMatch

\* Strikethrough ~~...~~ (660-668)
rule_strikethrough(chars, ci) ==
    IF ci + 1 < Len(chars) /\ At(chars, ci) = "~" /\ At(chars, ci + 1) = "~"
    THEN LET end == find_double_closing(chars, ci + 2, "~")
         IN  IF end # None
             THEN Match(<<"<del>">> \o process_inline(Slice(chars, ci + 2, end)) \o <<"</del>">>,
                        end + 2)
             ELSE NoMatch
    ELSE NoMatch

\* A fault of the superscript rule: the content goes through process_inline
\* as the content of a bold or italic span does
rule_superscript_recursive(chars, ci) ==
    IF At(chars, ci) = "^" /\ ci + 1 < Len(chars) /\ At(chars, ci + 1) # " "
    THEN LET end == find_closing(chars, ci + 1, "^")
         IN  IF end # None /\ end > ci + 1
             THEN Match(<<"<sup>">> \o process_inline(Slice(chars, ci + 1, end)) \o <<"</sup>">>,
                        end + 1)
             ELSE NoMatch
    ELSE NoMatch

\* Superscript ^...^ (670-680)
rule_superscript(chars, ci) ==
    IF At(chars, ci) = "^" /\ ci + 1 < Len(chars) /\ At(chars, ci + 1) # " "
    THEN LET end == find_closing(chars, ci + 1, "^")
         IN  IF end # None /\ end > ci + 1
             THEN Match(<<"<sup>">> \o escape_html(Slice(chars, ci + 1, end)) \o <<"</sup>">>,
                        end + 1)
             ELSE NoMatch
    ELSE NoMatch

\* Normal character (682-684)
rule_normal(chars, ci) == Match(escape_html_char(At(chars, ci)), ci + 1)

\* The rules in the order the loop body tries them.
inline_rules(chars, ci) ==
    <<rule_br(chars, ci),
      rule_code(chars, ci),
      rule_latex_paren(chars, ci),
      rule_latex_dollar(chars, ci),
      rule_bold_italic(chars, ci),
      rule_bold(chars, ci, "*"),
      rule_bold(chars, ci, "_"),
      rule_italic(chars, ci, "*"),
      rule_italic(chars, ci, "_"),
      rule_image(chars, ci),
      rule_link(chars, ci),
      rule_strikethrough(chars, ci),
      rule_superscript(chars, ci),
      rule_normal(chars, ci)>>

\* The first of the rules that matched (rule_normal always does).
first_match(rs) == rs[SetMin({n \in 1..Len(rs) : rs[n].ok})]

\* One iteration of the loop: the first rule that matches at ci.
inline_step(chars, ci) == first_match(inline_rules(chars, ci))

\* while i < len { ... }: r is what the iteration at the cursor did
RECURSIVE inline_loop(_, _)
inline_continue(chars, r) == r.out \o inline_loop(chars, r.next)

inline_loop(chars, ci) ==
    IF ci < Len(chars)
    THEN inline_continue(chars, inline_step(chars, ci))
    ELSE <<>>

process_inline(text) == inline_loop(text, 0)

-----------------------------------------------------------------------------
(* Block-level helpers: rich_content.rs 419-513. *)

is_task_list_item(line) ==
    LET t == trim_start(line)
    IN  \/ starts_with(t, <<"-", " ", "[", " ", "]", " ">>)
        \/ starts_with(t, <<"-", " ", "[", "x", "]", " ">>)
        \/ starts_with(t, <<"-", " ", "[", "X", "]", " ">>)
        \/ starts_with(t, <<"*", " ", "[", " ", "]", " ">>)
        \/ starts_with(t, <<"*", " ", "[", "x", "]", " ">>)
        \/ starts_with(t, <<"*", " ", "[", "X", "]", " ">>)

\* (checked, content)
parse_task_item(trimmed) ==
    IF \/ starts_with(trimmed, <<"-", " ", "[", "x", "]", " ">>)
       \/ starts_with(trimmed, <<"-", " ", "[", "X", "]", " ">>)
       \/ starts_with(trimmed, <<"*", " ", "[", "x", "]", " ">>)
       \/ starts_with(trimmed, <<"*", " ", "[", "X", "]", " ">>)
    THEN [checked |-> TRUE, content |-> SliceFrom(trimmed, 6)]
    ELSE IF \/ starts_with(trimmed, <<"-", " ", "[", " ", "]", " ">>)
            \/ starts_with(trimmed, <<"*", " ", "[", " ", "]", " ">>)
         THEN [checked |-> FALSE, content |-> SliceFrom(trimmed, 6)]
         ELSE [checked |-> FALSE, content |-> trimmed]

parse_table_row(line) ==
    LET cells == split(trim_matches(trim(line), "|"), "|")
    IN  [k \in 1..Len(cells) |-> trim(cells[k])]

\* Some(content) as [ok |-> TRUE, content |-> ...], None as [ok |-> FALSE]
parse_ordered_list_item(line) ==
    LET t       == trim_start(line)
        dot_pos == find(t, <<".", " ">>)
    IN  IF dot_pos = None THEN [ok |-> FALSE]
        ELSE IF /\ dot_pos > 0
                /\ dot_pos <= 3
                /\ \A k \in 0..(dot_pos - 1) : is_ascii_digit(At(t, k))
             THEN [ok |-> TRUE, content |-> SliceFrom(t, dot_pos + 2)]
             ELSE [ok |-> FALSE]

is_unordered_item(line) ==
    LET t == trim_start(line)
    IN  \/ starts_with(t, <<"-", " ">>)
        \/ starts_with(t, <<"*", " ">>)
        \/ starts_with(t, <<"+", " ">>)

is_list_item(line) ==
    \/ is_unordered_item(line)
    \/ is_task_list_item(line)
    \/ parse_ordered_list_item(line).ok

\* trimmed.chars().take_while(|&c| c == '#').count()
header_level(trimmed) ==
    LET other == {k \in 0..(Len(trimmed) - 1) : At(trimmed, k) # "#"}
    IN  IF other = {} THEN Len(trimmed) ELSE SetMin(other)

\* parse_header(line).is_some(): the condition of 504
is_header(line) ==
    LET trimmed == trim_start(line)
        level   == header_level(trimmed)
    IN  level >= 1 /\ level <= 6 /\ Len(trimmed) > level /\ At(trimmed, level) = " "

\* Some(html) as [ok |-> TRUE, html |-> ...], None as [ok |-> FALSE]
parse_header(line) ==
    LET trimmed == trim_start(line)
        level   == header_level(trimmed)
    IN  IF is_header(line)
        THEN [ok   |-> TRUE,
              html |-> <<"<h" \o ToString(level) \o ">">>
                           \o process_inline(SliceFrom(trimmed, level + 1))
                           \o <<"</h" \o ToString(level) \o ">">>]
        ELSE [ok |-> FALSE]

\* The row predicate of the table detection (221) and of the paragraph break (381)
is_table_line(line) ==
    /\ contains(line, <<"|">>)
    /\ starts_with(trim(line), <<"|">>)
    /\ ends_with(trim(line), <<"|">>)

\* parse_table's loop condition for data rows (461)
is_data_row(line) == contains(line, <<"|">>) /\ starts_with(trim(line), <<"|">>)

\* The cells of one row, each wrapped in <th> or <td>
RECURSIVE table_cells(_, _)
table_cells(cells, tag) ==
    IF cells = <<>> THEN <<>>
    ELSE <<"<" \o tag \o ">">> \o process_inline(Head(cells)) \o <<"</" \o tag \o ">">>
             \o table_cells(Tail(cells), tag)

\* The data rows from line j on: [html, i] with i the first line that is no row
RECURSIVE table_rows(_, _)
table_row_then(row, rest) == [html |-> row \o rest.html, i |-> rest.i]

table_rows(ls, j) ==
    IF j < Len(ls) /\ is_data_row(At(ls, j))
    THEN table_row_then(<<"<tr>">> \o table_cells(parse_table_row(At(ls, j)), "td")
                            \o <<"</tr>">>,
                        table_rows(ls, j + 1))
    ELSE [html |-> <<>>, i |-> j]

\* Header row (443-452): the cursor after it
after_header(ls, i0) == IF i0 < Len(ls) THEN i0 + 1 ELSE i0

\* Separator row (454-457): the cursor after it
after_separator(ls, i1) ==
    IF i1 < Len(ls) /\ contains(At(ls, i1), <<"-", "-", "-">>) THEN i1 + 1 ELSE i1

table_html(head, rows) ==
    [html |-> <<"<div class=\"table-wrapper\"><table>">> \o head \o <<"<tbody>">>
                  \o rows.html \o <<"</tbody></table></div>">>,
     i    |-> rows.i]

\* parse_table(lines, &mut i): [html, i] with i the cursor it leaves
parse_table(ls, i0) ==
    table_html(IF i0 < Len(ls)
               THEN <<"<thead><tr>">> \o table_cells(parse_table_row(At(ls, i0)), "th")
                        \o <<"</tr></thead>">>
               ELSE <<>>,
               table_rows(ls, after_separator(ls, after_header(ls, i0))))

-----------------------------------------------------------------------------
(* The line loop of render_markdown_to_html: rich_content.rs 103-417.      *)
(* The loop's locals are a record st = [i, in_list, list_type, result];    *)
(* each block rule is an operator from st to the locals at its continue.   *)
(* Template pieces are cut so that none is a single character.             *)

\* if in_list { result.push_str(&format!("</{list_type}>")); in_list = false; }
close_list(st) ==
    IF st.in_list
    THEN [st EXCEPT !.result = @ \o <<"</" \o st.list_type \o ">">>, !.in_list = FALSE]
    ELSE st

\* The list opening shared by the three item rules (283-290, 311-318, 329-336)
open_list(st, type, open_tag) ==
    IF ~st.in_list \/ st.list_type # type
    THEN [st EXCEPT !.result = (IF st.in_list THEN @ \o <<"</" \o st.list_type \o ">">> ELSE @)
                                    \o <<open_tag>>,
                    !.in_list = TRUE,
                    !.list_type = type]
    ELSE st

push_str(st, toks) == [st EXCEPT !.result = @ \o toks]

set_i(st, j) == [st EXCEPT !.i = j]

is_fence(line) == starts_with(trim_start(line), <<BACKTICK, BACKTICK, BACKTICK>>)

is_dollar_line(line) == trim(line) = <<"$", "$">>

is_bracket_close_line(line) == trim(line) = <<"\\", "]">>

is_blockquote(line) ==
    starts_with(trim_start(line), <<">", " ">>) \/ trim_start(line) = <<">">>

is_not_blockquote(line) == ~is_blockquote(line)

\* The break condition of the paragraph loop (371-388)
paragraph_break(l) ==
    \/ trim(l) = <<>>
    \/ starts_with(trim_start(l), <<"#">>)
    \/ starts_with(trim_start(l), <<BACKTICK, BACKTICK, BACKTICK>>)
    \/ starts_with(trim_start(l), <<">", " ">>)
    \/ starts_with(trim_start(l), <<"-", " ">>)
    \/ starts_with(trim_start(l), <<"*", " ">>)
    \/ starts_with(trim_start(l), <<"+", " ">>)
    \/ starts_with(trim(l), <<"$", "$">>)
    \/ starts_with(trim(l), <<"\\", "[">>)
    \/ is_task_list_item(l)
    \/ is_table_line(l)
    \/ trim(l) = <<"-", "-", "-">>
    \/ trim(l) = <<"*", "*", "*">>
    \/ trim(l) = <<"_", "_", "_">>
    \/ parse_ordered_list_item(l).ok

\* The line ends the inner loop of the rule of this kind (141, 165, 195,
\* 262-264, 371-388)
is_closing_line(kind, line) ==
    CASE kind = "fence"        -> is_fence(line)
      [] kind = "dollar_math"  -> is_dollar_line(line)
      [] kind = "bracket_math" -> is_bracket_close_line(line)
      [] kind = "blockquote"   -> is_not_blockquote(line)
      [] kind = "paragraph"    -> paragraph_break(line)

\* Where the body loop of a rule stops: the first closing line from j on, or
\* lines.len()
first_line(ls, j, kind) ==
    LET hits == {k \in j..(Len(ls) - 1) : is_closing_line(kind, At(ls, k))}
    IN  IF hits = {} THEN Len(ls) ELSE SetMin(hits)

\* lang_label (125-135)
lang_label(lang) ==
    IF lang = <<>>
    THEN <<"<div class=\"code-block-header\"><span class=\"code-lang\">code</span><button class=\"code-copy-btn\" onclick=\"navigator.clipboard.writeText(this.parentElement.nextElementSibling.textContent)\">Copy</button></div>">>
    ELSE <<"<div class=\"code-block-header\"><span class=\"code-lang\">">>
             \o escape_html(lang)
             \o <<"</span><button class=\"code-copy-btn\" onclick=\"navigator.clipboard.writeText(this.parentElement.nextElementSibling.textContent)\">Copy</button></div>">>

\* "<pre><code{lang_attr}>" with lang_attr of 120-124: the tag is copied as is
code_open(lang) ==
    IF lang = <<>>
    THEN <<"<pre><code>">>
    ELSE <<"<pre><code class=\"language-">> \o lang \o <<"\">">>

\* The body lines of a fence, escaped, with "\n" between them (140-148)
RECURSIVE fence_body(_, _)
fence_body(body, first_line_flag) ==
    IF body = <<>> THEN <<>>
    ELSE (IF ~first_line_flag THEN <<"\n">> ELSE <<>>)
             \o escape_html(Head(body)) \o fence_body(Tail(body), FALSE)

\* A fault of the fence rule: the body loop also stops at a blank line
fenced_code_block_stops_at_blank(ls, st) ==
    LET line == At(ls, st.i)
        s1   == close_list(st)
        lang == trim(trim_start_matches(trim_start(line), <<BACKTICK>>))
        hits == {k \in (st.i + 1)..(Len(ls) - 1) :
                    is_fence(At(ls, k)) \/ trim(At(ls, k)) = <<>>}
        stop == IF hits = {} THEN Len(ls) ELSE SetMin(hits)
    IN  set_i(push_str(s1, <<"<div class=\"code-block\">">> \o lang_label(lang)
                               \o code_open(lang)
                               \o fence_body(Slice(ls, st.i + 1, stop), TRUE)
                               \o <<"</code></pre></div>">>),
              stop + 1)

\* Fenced code blocks (113-152)
fenced_code_block(ls, st) ==
    LET line == At(ls, st.i)
        s1   == close_list(st)
        lang == trim(trim_start_matches(trim_start(line), <<BACKTICK>>))
        stop == first_line(ls, st.i + 1, "fence")
    IN  set_i(push_str(s1, <<"<div class=\"code-block\">">> \o lang_label(lang)
                               \o code_open(lang)
                               \o fence_body(Slice(ls, st.i + 1, stop), TRUE)
                               \o <<"</code></pre></div>">>),
              stop + 1)

\* latex of the multi-line math forms (163-169, 193-199): the lines joined by
\* "\n", a "\n" being pushed only when latex is not empty
RECURSIVE latex_join(_, _)
latex_join(latex, body) ==
    IF body = <<>> THEN latex
    ELSE latex_join((IF latex # <<>> THEN latex \o <<"\n">> ELSE latex) \o Head(body),
                    Tail(body))

\* The katex-block format! calls (176-180, 212-216)
katex_block(latex) ==
    <<"<div class=\"katex-block\" data-latex=\"">> \o escape_html_attr(latex)
        \o <<"\">">> \o escape_html(latex) \o <<"</div>">>

\* LaTeX display block $$...$$ (154-182)
dollar_math_block(ls, st) ==
    LET line == At(ls, st.i)
        s1   == close_list(st)
    IN  IF trim(line) = <<"$", "$">>
        THEN LET stop == first_line(ls, st.i + 1, "dollar_math")
             IN  set_i(push_str(s1, katex_block(latex_join(<<>>, Slice(ls, st.i + 1, stop)))),
                       stop + 1)
        ELSE LET content == trim_end_matches(trim_start_matches(trim(line), <<"$", "$">>),
                                             <<"$", "$">>)
             IN  set_i(push_str(s1, katex_block(content)), st.i + 1)

\* LaTeX display block \[...\] (184-218)
bracket_math_block(ls, st) ==
    LET line == At(ls, st.i)
        s1   == close_list(st)
    IN  IF trim(line) = <<"\\", "[">>
        THEN LET stop == first_line(ls, st.i + 1, "bracket_math")
             IN  set_i(push_str(s1, katex_block(latex_join(<<>>, Slice(ls, st.i + 1, stop)))),
                       stop + 1)
        ELSE LET trimmed == trim(line)
                 content == trim(strip_suffix_or(strip_prefix_or(trimmed, <<"\\", "[">>, trimmed),
                                                 <<"\\", "]">>, trimmed))
             IN  set_i(push_str(s1, katex_block(content)), st.i + 1)

\* result.push_str(&table_html) with the cursor parse_table left
push_table(st, t) == set_i(push_str(st, t.html), t.i)

\* Table detection (220-229)
table_block(ls, st) == push_table(close_list(st), parse_table(ls, st.i))

\* Close list if current line is not a list item and not empty (231-235)
close_list_on_other(ls, st) ==
    LET line == At(ls, st.i)
    IN  IF st.in_list /\ ~is_list_item(line) /\ ~(trim(line) = <<>>)
        THEN close_list(st)
        ELSE st

is_horizontal_rule(line) ==
    \/ trim(line) = <<"-", "-", "-">>
    \/ trim(line) = <<"*", "*", "*">>
    \/ trim(line) = <<"_", "_", "_">>

\* Horizontal rule (237-246)
horizontal_rule(ls, st) ==
    LET s1 == close_list(close_list_on_other(ls, st))
    IN  set_i(push_str(s1, <<"<hr>">>), st.i + 1)

\* Headers (248-257)
header_block(ls, st) ==
    LET s1 == close_list(close_list_on_other(ls, st))
    IN  set_i(push_str(s1, parse_header(At(ls, st.i)).html), st.i + 1)

\* One <p> per quoted line (266-276)
RECURSIVE blockquote_body(_)
blockquote_body(body) ==
    IF body = <<>> THEN <<>>
    ELSE LET t       == trim_start(Head(body))
             content == IF starts_with(t, <<">", " ">>) THEN SliceFrom(t, 2)
                        ELSE strip_prefix_or(t, <<">">>, <<>>)
         IN  <<"<p>">> \o process_inline(content) \o <<"</p>">>
                 \o blockquote_body(Tail(body))

\* Blockquote (259-279)
blockquote_block(ls, st) ==
    LET s1   == close_list(close_list_on_other(ls, st))
        stop == first_line(ls, st.i, "blockquote")
    IN  set_i(push_str(s1, <<"<blockquote>">> \o blockquote_body(Slice(ls, st.i, stop))
                               \o <<"</blockquote>">>),
              stop)

\* Task list items (281-304)
task_list_item(ls, st) ==
    LET line == At(ls, st.i)
        s1   == open_list(close_list_on_other(ls, st), "ul", "<ul class=\"task-list\">")
        item == parse_task_item(trim_start(line))
        mark == IF item.checked
                THEN <<"<li class=\"task-list-item task-list-item--checked\">",
                       "<span class=\"task-checkbox task-checkbox--checked\">&#9745;</span> ">>
                ELSE <<"<li class=\"task-list-item\">",
                       "<span class=\"task-checkbox\">&#9744;</span> ">>
    IN  set_i(push_str(s1, mark \o process_inline(item.content) \o <<"</li>">>), st.i + 1)

\* Unordered list items (306-325)
unordered_list_item(ls, st) ==
    LET line    == At(ls, st.i)
        s1      == open_list(close_list_on_other(ls, st), "ul", "<ul>")
        content == SliceFrom(trim_start(line), 2)
    IN  set_i(push_str(s1, <<"<li>">> \o process_inline(content) \o <<"</li>">>), st.i + 1)

\* Ordered list items (327-342)
ordered_list_item(ls, st) ==
    LET line    == At(ls, st.i)
        s1      == open_list(close_list_on_other(ls, st), "ol", "<ol>")
        content == parse_ordered_list_item(line).content
    IN  set_i(push_str(s1, <<"<li>">> \o process_inline(content) \o <<"</li>">>), st.i + 1)

\* A fault of the empty-line rule: an open list is left open
empty_line_keeps_list(ls, st) == set_i(st, st.i + 1)

\* Empty line (344-352)
empty_line(ls, st) == set_i(close_list(close_list_on_other(ls, st)), st.i + 1)

is_html_passthrough(line) ==
    /\ starts_with(trim_start(line), <<"<">>)
    /\ \/ contains(line, <<"<", "t", "a", "b", "l", "e">>)
       \/ contains(line, <<"<", "d", "i", "v">>)
       \/ contains(line, <<"<", "i", "m", "g">>)
       \/ contains(line, <<"<", "b", "r">>)
       \/ contains(line, <<"<", "h", "r">>)

\* HTML passthrough (354-365)
html_passthrough(ls, st) ==
    set_i(push_str(close_list_on_other(ls, st), At(ls, st.i)), st.i + 1)

\* para after the lines of body are pushed (389-403)
RECURSIVE paragraph_join(_, _)
paragraph_join(para, body) ==
    IF body = <<>> THEN para
    ELSE LET joined ==
                 IF para = <<>> THEN para
                 ELSE IF ends_with(para, <<"\\">>)
                      THEN Slice(para, 0, Len(para) - 1) \o <<"<", "b", "r", ">">>
                 ELSE IF ends_with(para, <<" ", " ">>)
                      THEN trim_end(para) \o <<"<", "b", "r", ">">>
                 ELSE para \o <<" ">>
         IN  paragraph_join(joined \o Head(body), Tail(body))

\* Normal paragraph (367-409)
paragraph_block(ls, st) ==
    LET s1   == close_list_on_other(ls, st)
        stop == first_line(ls, st.i, "paragraph")
        para == paragraph_join(<<>>, Slice(ls, st.i, stop))
    IN  set_i(IF para # <<>>
              THEN push_str(s1, <<"<p>">> \o process_inline(para) \o <<"</p>">>)
              ELSE s1,
              stop)

\* A fault of the order of the rules: the unordered item is tested before
\* the task item
block_kind_items_before_tasks(line) ==
    IF is_fence(line) THEN "fence"
    ELSE IF starts_with(trim(line), <<"$", "$">>) THEN "dollar_math"
    ELSE IF starts_with(trim(line), <<"\\", "[">>) THEN "bracket_math"
    ELSE IF is_table_line(line) THEN "table"
    ELSE IF is_horizontal_rule(line) THEN "hr"
    ELSE IF is_header(line) THEN "header"
    ELSE IF is_blockquote(line) THEN "blockquote"
    ELSE IF is_unordered_item(line) THEN "unordered"
    ELSE IF is_task_list_item(line) THEN "task"
    ELSE IF parse_ordered_list_item(line).ok THEN "ordered"
    ELSE IF trim(line) = <<>> THEN "empty"
    ELSE IF is_html_passthrough(line) THEN "html"
    ELSE "paragraph"

\* Which rule of the loop body takes the line (first match wins)
block_kind(line) ==
    IF is_fence(line) THEN "fence"
    ELSE IF starts_with(trim(line), <<"$", "$">>) THEN "dollar_math"
    ELSE IF starts_with(trim(line), <<"\\", "[">>) THEN "bracket_math"
    ELSE IF is_table_line(line) THEN "table"
    ELSE IF is_horizontal_rule(line) THEN "hr"
    ELSE IF is_header(line) THEN "header"
    ELSE IF is_blockquote(line) THEN "blockquote"
    ELSE IF is_task_list_item(line) THEN "task"
    ELSE IF is_unordered_item(line) THEN "unordered"
    ELSE IF parse_ordered_list_item(line).ok THEN "ordered"
    ELSE IF trim(line) = <<>> THEN "empty"
    ELSE IF is_html_passthrough(line) THEN "html"
    ELSE "paragraph"

\* The loop body for a line of the given kind
block_apply(kind, ls, st) ==
    CASE kind = "fence"        -> fenced_code_block(ls, st)
      [] kind = "dollar_math"  -> dollar_math_block(ls, st)
      [] kind = "bracket_math" -> bracket_math_block(ls, st)
      [] kind = "table"        -> table_block(ls, st)
      [] kind = "hr"           -> horizontal_rule(ls, st)
      [] kind = "header"       -> header_block(ls, st)
      [] kind = "blockquote"   -> blockquote_block(ls, st)
      [] kind = "task"         -> task_list_item(ls, st)
      [] kind = "unordered"    -> unordered_list_item(ls, st)
      [] kind = "ordered"      -> ordered_list_item(ls, st)
      [] kind = "empty"        -> empty_line(ls, st)
      [] kind = "html"         -> html_passthrough(ls, st)
      [] OTHER                 -> paragraph_block(ls, st)

\* One iteration of while i < lines.len() { ... }
block_step(ls, st) == block_apply(block_kind(At(ls, st.i)), ls, st)

\* The locals before the loop (104-108)
initial_locals == [i |-> 0, in_list |-> FALSE, list_type |-> "", result |-> <<>>]

\* A fault of the end of the pass: the closing tag is written whether or
\* not a list is open
finish_always_closes(st) == st.result \o <<"</" \o st.list_type \o ">">>

\* The value returned after the loop (412-416)
finish(st) == close_list(st).result

\* The whole call, as a function: [returned, html].  An iteration that leaves
\* i where it was repeats for ever (the loop body is a function of the locals
\* and leaves in_list false): the call does not return.
RECURSIVE render_loop(_, _)
render_continue(ls, st, n) ==
    IF n.i = st.i
    THEN [returned |-> FALSE, html |-> <<>>]
    ELSE render_loop(ls, n)

render_loop(ls, st) ==
    IF st.i < Len(ls)
    THEN render_continue(ls, st, block_step(ls, st))
    ELSE [returned |-> TRUE, html |-> finish(st)]

render_markdown_to_html(text) == render_loop(str_lines(text), initial_locals)

-----------------------------------------------------------------------------
(* RichContent: rich_content.rs 13-29. *)

Some(v) == [some |-> TRUE, val |-> v]

NoneOpt == [some |-> FALSE]

unwrap_or(opt, dflt) == IF opt.some THEN opt.val ELSE dflt

\* The element the component returns: the wrapper's class and its inner HTML;
\* returned is FALSE when render_markdown_to_html does not return.
rich_element(r, is_streaming) ==
    [class    |-> IF is_streaming THEN "rich-content rich-content--streaming"
                  ELSE "rich-content",
     html     |-> r.html,
     returned |-> r.returned]

\* A fault of the component: a streaming message is shown as escaped plain
\* text and parsed only once the stream has ended
RichContent_plain_while_streaming(text, streaming_prop) ==
    IF unwrap_or(streaming_prop, FALSE)
    THEN [class    |-> "rich-content rich-content--streaming",
          html     |-> escape_html(text),
          returned |-> TRUE]
    ELSE rich_element(render_markdown_to_html(text), FALSE)

RichContent(text, streaming_prop) ==
    rich_element(render_markdown_to_html(text), unwrap_or(streaming_prop, FALSE))

NoView == [class |-> "", html |-> <<>>, returned |-> TRUE]

-----------------------------------------------------------------------------
(* Inputs. *)

\* All sequences of length 0..n over S.
SeqsUpTo(S, n) == UNION {[1..k -> S] : k \in 0..n}

\* The lines the documents of the block-level specification are made of.
BlockLines ==
    {<<BACKTICK, BACKTICK, BACKTICK>>,
     <<BACKTICK, BACKTICK, BACKTICK, "a", "\"", "<">>,
     <<"$", "$">>,
     <<"\\", "[">>,
     <<"|", "a", "|", "b", "|">>,
     <<"-", "-", "-">>,
     <<"*", "*", "*">>,
     <<"#", " ", "T">>,
     <<"#", "t">>,
     <<"#", " ">>,
     <<"$", "$", "x">>,
     <<"\\", "[", "x">>,
     <<"\\", "[", "x", "\\", "]">>,
     <<">">>,
     <<">", " ", "q">>,
     <<"-", " ", "[", "x", "]", " ", "t">>,
     <<"-", " ", "a">>,
     <<"1", ".", " ", "b">>,
     <<>>,
     <<"<", "d", "i", "v", ">", "<", "s", "c", "r", "i", "p", "t", ">">>,
     <<"<", "d", "i", "v", ">", "<", "u", "l", ">">>,
     <<"x">>}

\* Lines joined by "\n".
RECURSIVE join_lines(_)
join_lines(ls) ==
    IF ls = <<>> THEN <<>>
    ELSE IF Len(ls) = 1 THEN Head(ls)
    ELSE Head(ls) \o <<"\n">> \o join_lines(Tail(ls))

\* List items of the three kinds, a blank line and a paragraph line.
ListLines ==
    {<<"-", " ", "a">>,
     <<"-", " ", "[", "x", "]", " ", "t">>,
     <<"1", ".", " ", "b">>,
     <<>>,
     <<"x">>}

\* The lines that open a fence or a multi-line display-math block.
OpenerLines ==
    {<<BACKTICK, BACKTICK, BACKTICK>>,
     <<"$", "$">>,
     <<"\\", "[">>}

\* What may follow an opener: text, a blank line, an item, and the closers.
BodyLines ==
    {<<"x", "<">>,
     <<>>,
     <<"-", " ", "a">>,
     <<BACKTICK, BACKTICK, BACKTICK>>,
     <<"$", "$">>,
     <<"\\", "]">>}

\* A header row, a separator row, a row with no closing pipe, a single pipe
\* and a paragraph line.
TableLines ==
    {<<"|", "a", "|", "b", "|">>,
     <<"|", "-", "-", "-", "|">>,
     <<"|", "c">>,
     <<"|">>,
     <<"x">>}

\* Paragraph lines: plain, ending in a backslash, ending in two spaces, the
\* two halves of a code span that is split over two lines, and a blank line.
ParaLines ==
    {<<"a">>,
     <<"a", "\\">>,
     <<"a", " ", " ">>,
     <<BACKTICK, "a", "\\">>,
     <<"b", BACKTICK>>,
     <<>>}

BlockDocs ==
    SeqsUpTo(BlockLines, MaxLines)
        \cup SeqsUpTo(ParaLines, MaxParaLines)
        \cup SeqsUpTo(ListLines, MaxListLines)
        \cup SeqsUpTo(TableLines, MaxTableLines)
        \cup {<<o>> \o b : o \in OpenerLines, b \in SeqsUpTo(BodyLines, MaxBodyLines)}

BlockInputs == {join_lines(d) : d \in BlockDocs}

EscAlphabet == {"<", ">", "&", "\"", "b", "r", BACKTICK}

EmphAlphabet == {"*", "_", "x"}

AttrAlphabet == {"'", "\"", "<", "&", "x"}

AttrValues == SeqsUpTo(AttrAlphabet, MaxAttrLen)

AttrTexts ==
    {<<"!", "[">> \o a \o <<"]", "(">> \o u \o <<")">> : a \in AttrValues, u \in AttrValues}
    \cup {<<"[">> \o a \o <<"]", "(">> \o u \o <<")">> : a \in AttrValues, u \in AttrValues}
    \cup {<<"$">> \o m \o <<"$">> : m \in AttrValues}
    \cup {<<"\\", "(">> \o m \o <<"\\", ")">> : m \in AttrValues}

\* A value inside each span whose content is escaped or processed again.
SpanTexts ==
    {d \o v \o d : d \in {<<"~", "~">>, <<"^">>, <<"*", "*">>, <<"_">>, <<BACKTICK>>},
                   v \in AttrValues}

ExtraTexts ==
    {<<"<", "s", "c", "r", "i", "p", "t", ">", "a", "l", "e", "r", "t", "(", "1", ")", "<", "/", "s", "c", "r", "i", "p", "t", ">">>,
     <<BACKTICK, "<", "b", "r", ">", BACKTICK>>,
     <<"a", "<", "b", "r", ">", "b">>,
     <<"*", "*", "<", "*", "*", "\"", "&", "\"">>}

\* Texts with an opening delimiter that nothing closes, at the start of the
\* text and after a character.
LoneOpeners ==
    {<<BACKTICK>>, <<"$">>, <<"^">>, <<"*">>, <<"_">>, <<"~", "~">>, <<"[">>, <<"!", "[">>}

LoneTails ==
    {<<>>, <<"x">>, <<"<">>, <<" ", "x">>, <<"(", "u", ")">>,
     <<"-", "-", "b", "-", "-">>, <<"-", "b", "-">>}

\* s with every "-" replaced by the character c
with_delim(s, c) == [k \in 1..Len(s) |-> IF s[k] = "-" THEN c ELSE s[k]]

\* a delimiter that is not the opener o, to write a closed span after it
other_delim(o) == IF Head(o) = "*" THEN "_" ELSE "*"

LoneTexts ==
    {p \o o \o with_delim(t, other_delim(o)) :
        p \in {<<>>, <<"a">>}, o \in LoneOpeners, t \in LoneTails}

\* Markup inside the spans whose content is literal: code, $...$, \(...\)
\* and ^...^, at the start of the text and after a character.
LiteralSpanDelims ==
    {<<<<BACKTICK>>, <<BACKTICK>>>>, <<<<"$">>, <<"$">>>>,
     <<<<"\\", "(">>, <<"\\", ")">>>>, <<<<"^">>, <<"^">>>>}

InnerMarkup ==
    {<<"*", "*", "a", "*", "*">>,
     <<"[", "x", "]", "(", "y", ")">>,
     <<"!", "[", "x", "]", "(", "y", ")">>,
     <<"_", "a", "_">>,
     <<"~", "~", "a", "~", "~">>,
     <<"<", "b", "r", ">">>,
     <<"*", "a", "*", " ", "<", "b", ">">>}

LiteralSpanTexts ==
    {p \o d[1] \o v \o d[2] \o q :
        p \in {<<>>, <<"a">>}, d \in LiteralSpanDelims, v \in InnerMarkup,
        q \in {<<>>, <<"*", "b", "*">>}}

\* Links and images with a backslash before a "]" of the text or a ")" of
\* the URL.
EscapedLinkTexts ==
    {p \o <<"[">> \o t \o <<"]", "(">> \o u \o <<")">> :
        p \in {<<>>, <<"!">>},
        t \in {<<"a">>, <<"a", "\\", "]">>, <<"a", "\\", "]", "b">>},
        u \in {<<"u">>, <<"u", "\\", ")">>, <<"u", "\\", ")", "v">>}}

InlineTexts ==
    SeqsUpTo(EscAlphabet, MaxEscLen) \cup SeqsUpTo(EmphAlphabet, MaxEmphLen)
        \cup AttrTexts \cup SpanTexts \cup ExtraTexts \cup LoneTexts
        \cup LiteralSpanTexts \cup EscapedLinkTexts

\* The pieces the streamed answers are made of.
StreamPieces ==
    {<<"#", " ", "T">>,
     <<"*", "*", "b", "*", "*">>,
     <<"<", "s", ">", "&">>,
     <<BACKTICK, BACKTICK, BACKTICK, "a", "\"", "\n", "x">>,
     <<"-", " ", "a", "\n">>,
     <<"$", "$", "\n", "<">>}

StreamTexts == {Concat(d) : d \in SeqsUpTo(StreamPieces, MaxPieces)}

\* The messages of a failed stream.
ErrorTexts == {<<"e">>, <<"<", "e", ">">>}

-----------------------------------------------------------------------------
(* Specification Spec: one call of render_markdown_to_html, one action per *)
(* rule of the line loop.                                                  *)

\* The chat page takes no part in the call
NoChat ==
    /\ messages = <<>>
    /\ sessions = <<>>
    /\ active_session_id = ""
    /\ loading = FALSE
    /\ tasks = <<>>
    /\ fetches = {}
    /\ server = <<>>
    /\ counter = 1

locals == [i |-> i, in_list |-> in_list, list_type |-> list_type, result |-> result]

Init ==
    /\ NoChat
    /\ buffer = <<>>
    /\ events = <<>>
    /\ input \in BlockInputs
    /\ lines = str_lines(input)
    /\ i = initial_locals.i
    /\ in_list = initial_locals.in_list
    /\ list_type = initial_locals.list_type
    /\ result = initial_locals.result
    /\ pc = "loop"
    /\ trace = <<>>
    /\ pending = <<>>
    /\ streaming = FALSE
    /\ view = NoView

\* One iteration of the loop on a line of the given kind; n is the locals the
\* rule of that kind leaves.  trace records the kind, the line the iteration
\* started at and the length of result before it.  The loop has no bound of
\* its own: the model records at most one iteration more than there are
\* lines, which is one more than a loop that advances can make.
Iterate(kind, n) ==
    /\ pc = "loop"
    /\ i < Len(lines)
    /\ block_kind(At(lines, i)) = kind
    /\ Len(trace) <= Len(lines)
    /\ i' = n.i
    /\ in_list' = n.in_list
    /\ list_type' = n.list_type
    /\ result' = n.result
    /\ trace' = Append(trace, [kind |-> kind, line |-> i, out |-> Len(result)])
    /\ UNCHANGED <<input, lines, pc, pending, streaming, view>>
    /\ UNCHANGED sse_vars
    /\ UNCHANGED chat_vars

FencedCodeBlock == Iterate("fence", fenced_code_block(lines, locals))

DollarMathBlock == Iterate("dollar_math", dollar_math_block(lines, locals))

BracketMathBlock == Iterate("bracket_math", bracket_math_block(lines, locals))

TableBlock == Iterate("table", table_block(lines, locals))

HorizontalRule == Iterate("hr", horizontal_rule(lines, locals))

HeaderBlock == Iterate("header", header_block(lines, locals))

BlockquoteBlock == Iterate("blockquote", blockquote_block(lines, locals))

TaskListItem == Iterate("task", task_list_item(lines, locals))

UnorderedListItem == Iterate("unordered", unordered_list_item(lines, locals))

OrderedListItem == Iterate("ordered", ordered_list_item(lines, locals))

EmptyLine == Iterate("empty", empty_line(lines, locals))

HtmlPassthrough == Iterate("html", html_passthrough(lines, locals))

ParagraphBlock == Iterate("paragraph", paragraph_block(lines, locals))

\* The loop is left: close an open list and return result (412-416)
Finish ==
    /\ pc = "loop"
    /\ ~(i < Len(lines))
    /\ result' = finish(locals)
    /\ pc' = "done"
    /\ UNCHANGED <<input, lines, i, in_list, list_type, trace, pending, streaming, view>>
    /\ UNCHANGED sse_vars
    /\ UNCHANGED chat_vars

Next ==
    \/ FencedCodeBlock
    \/ DollarMathBlock
    \/ BracketMathBlock
    \/ TableBlock
    \/ HorizontalRule
    \/ HeaderBlock
    \/ BlockquoteBlock
    \/ TaskListItem
    \/ UnorderedListItem
    \/ OrderedListItem
    \/ EmptyLine
    \/ HtmlPassthrough
    \/ ParagraphBlock
    \/ Finish

Spec == Init /\ [][Next]_vars

-----------------------------------------------------------------------------
(* Specification SpecInline: one call of process_inline. *)

InitInline ==
    /\ NoChat
    /\ buffer = <<>>
    /\ events = <<>>
    /\ input \in InlineTexts
    /\ lines = <<>>
    /\ i = 0
    /\ in_list = FALSE
    /\ list_type = ""
    /\ result = <<>>
    /\ pc = "inline"
    /\ trace = <<>>
    /\ pending = <<>>
    /\ streaming = FALSE
    /\ view = NoView

InlineCall ==
    /\ pc = "inline"
    /\ result' = process_inline(input)
    /\ pc' = "done"
    /\ UNCHANGED <<input, lines, i, in_list, list_type, trace, pending, streaming, view>>
    /\ UNCHANGED sse_vars
    /\ UNCHANGED chat_vars

NextInline == InlineCall

SpecInline == InitInline /\ [][NextInline]_vars

-----------------------------------------------------------------------------
(* Specification SpecRich: the assistant message of a chat stream          *)
(* (pages/chat.rs 180-223) and the RichContent that ChatBubble renders for *)
(* it (chat_bubble.rs 27, 46) after every change of the message.           *)

InitRich ==
    /\ NoChat
    /\ buffer = <<>>
    /\ events = <<>>
    /\ pending \in StreamTexts
    /\ input = <<>>
    /\ streaming = TRUE
    /\ view = RichContent(<<>>, Some(TRUE))
    /\ lines = <<>>
    /\ i = 0
    /\ in_list = FALSE
    /\ list_type = ""
    /\ result = <<>>
    /\ pc = "stream"
    /\ trace = <<>>

\* StreamEvent::Token(token): last.text.push_str(&token), then the re-render.
\* A render that does not return blocks the (single) UI thread: nothing
\* follows it.
StreamToken ==
    /\ pc = "stream"
    /\ view.returned
    /\ \E n \in 1..SetMin({Len(pending), MaxTokenLen}) :
          /\ input' = input \o SubSeq(pending, 1, n)
          /\ pending' = SubSeq(pending, n + 1, Len(pending))
    /\ view' = RichContent(input', Some(streaming))
    /\ UNCHANGED <<lines, i, in_list, list_type, result, pc, trace, streaming>>
    /\ UNCHANGED sse_vars
    /\ UNCHANGED chat_vars

\* StreamEvent::Done: last.streaming = false, then the re-render.
StreamDone ==
    /\ pc = "stream"
    /\ view.returned
    /\ pending = <<>>
    /\ streaming' = FALSE
    /\ view' = RichContent(input, Some(streaming'))
    /\ pc' = "done"
    /\ UNCHANGED <<input, lines, i, in_list, list_type, result, trace, pending>>
    /\ UNCHANGED sse_vars
    /\ UNCHANGED chat_vars

\* StreamEvent::Error(err): last.text = format!("Error: {err}"),
\* last.streaming = false, then the re-render.
StreamError ==
    /\ pc = "stream"
    /\ view.returned
    /\ \E err \in ErrorTexts : input' = <<"E", "r", "r", "o", "r", ":", " ">> \o err
    /\ streaming' = FALSE
    /\ view' = RichContent(input', Some(streaming'))
    /\ pc' = "done"
    /\ UNCHANGED <<lines, i, in_list, list_type, result, trace, pending>>
    /\ UNCHANGED sse_vars
    /\ UNCHANGED chat_vars

NextRich == StreamToken \/ StreamDone \/ StreamError

SpecRich == InitRich /\ [][NextRich]_vars

-----------------------------------------------------------------------------
(* Vocabulary of the properties.  An output is a sequence of tokens: a     *)
(* token of one character is a character copied from the input as it is,   *)
(* an entity is an escaped character, any longer token is markup that the  *)
(* renderer wrote.                                                         *)

Entities == {"&amp;", "&lt;", "&gt;", "&quot;", "&#39;"}

\* The characters that escape_html_char replaces
MarkupChars == {"<", ">", "&", "\""}

IsCopied(tok) == Len(tok) = 1

IsContent(tok) == IsCopied(tok) \/ tok \in Entities

\* The tokens of content that follow position k, up to the next markup token
ContentRun(toks, k) ==
    LET stops == {m \in (k + 1)..Len(toks) : ~IsContent(toks[m])}
        last  == IF stops = {} THEN Len(toks) ELSE SetMin(stops) - 1
    IN  SubSeq(toks, k + 1, last)

\* The character that a token of content stands for
unescape_token(tok) ==
    CASE tok = "&amp;"  -> "&"
      [] tok = "&lt;"   -> "<"
      [] tok = "&gt;"   -> ">"
      [] tok = "&quot;" -> "\""
      [] tok = "&#39;"  -> "'"
      [] OTHER          -> tok

Unescape(toks) == [k \in 1..Len(toks) |-> unescape_token(toks[k])]

Range(s) == {s[k] : k \in 1..Len(s)}

-----------------------------------------------------------------------------
(* C1 *)

\* C1: every iteration of the line loop of render_markdown_to_html leaves the
\* cursor i strictly beyond the line it started at (so the loop ends after at
\* most one iteration per line and the function returns).
C1_EveryIterationAdvances ==
    \A k \in 1..Len(trace) :
        trace[k].line < (IF k < Len(trace) THEN trace[k + 1].line ELSE i)

-----------------------------------------------------------------------------
(* C2 *)

ScriptText == <<"<", "s", "c", "r", "i", "p", "t", ">", "a", "l", "e", "r", "t", "(", "1", ")", "<", "/", "s", "c", "r", "i", "p", "t", ">">>

\* C2: no "<", ">", "&" or double quote of the text given to process_inline
\* is copied to its output: each one is replaced by its entity, or belongs to
\* a literal <br> tag that is written again as markup.  The text
\* <script>alert(1)</script> comes out as &lt;script&gt;alert(1)&lt;/script&gt;.
C2_InlineOutputIsEscaped ==
    pc = "done" =>
        /\ \A k \in 1..Len(result) : result[k] \notin MarkupChars
        /\ input = ScriptText
              => Flat(result) = "&lt;script&gt;alert(1)&lt;/script&gt;"

C2_Witness ==
    /\ pc = "done"
    /\ input = ScriptText
    /\ Len(result) = Len(input)
    /\ result[1] = "&lt;"
    /\ result[Len(result)] = "&gt;"

-----------------------------------------------------------------------------
(* C3 *)

CodeClassOpener == "<pre><code class=\"language-"

CodeLabelOpener == "<div class=\"code-block-header\"><span class=\"code-lang\">"

\* C3: the language tag of a fence, in the header label and in the class
\* attribute of the code element that render_markdown_to_html writes, holds
\* no "<", ">", "&" or double quote copied from the input.
C3_LanguageTagIsEscaped ==
    \A k \in 1..Len(result) :
        result[k] \in {CodeLabelOpener, CodeClassOpener}
            => Range(ContentRun(result, k)) \cap MarkupChars = {}

-----------------------------------------------------------------------------
(* C4 *)

\* The tags of the passthrough allowlist (356-360), as they start in a line
AllowedTagStarts ==
    {<<"<", "t", "a", "b", "l", "e">>,
     <<"<", "d", "i", "v">>,
     <<"<", "i", "m", "g">>,
     <<"<", "b", "r">>,
     <<"<", "h", "r">>}

StartsAt(toks, k, s) ==
    /\ k + Len(s) - 1 <= Len(toks)
    /\ SubSeq(toks, k, k + Len(s) - 1) = s

\* Position k lies in the language tag of a class attribute (the subject of C3)
InLanguageTag(toks, k) ==
    \E j \in 1..(k - 1) :
        toks[j] = CodeClassOpener /\ k - j <= Len(ContentRun(toks, j))

\* C4: every "<" that render_markdown_to_html copies from the text of the
\* input to its output starts one of the tags <table, <div, <img, <br, <hr;
\* no <script is copied.
C4_OnlyAllowlistedRawTags ==
    \A k \in 1..Len(result) :
        (result[k] = "<" /\ ~InLanguageTag(result, k))
            => \E s \in AllowedTagStarts : StartsAt(result, k, s)

-----------------------------------------------------------------------------
(* C5 *)

\* C5: the render of every prefix of a streamed message returns: RichContent
\* has an element for the text received so far after every token.
C5_EveryPrefixRenderReturns == view.returned

-----------------------------------------------------------------------------
(* C6 *)

\* The markup after which an attribute value derived from the input follows
AttributeOpeners ==
    {"<a href=\"", "<img src=\"", "\" alt=\"",
     "<span class=\"katex-inline\" data-latex=\"",
     "<div class=\"katex-block\" data-latex=\""}

AttributeUnsafe == MarkupChars \cup {"'"}

\* C6: in the output of process_inline every attribute value taken from the
\* input (the href of a link, the src and the alt of an image, the
\* data-latex of a formula) holds no "<", ">", "&", double quote or single
\* quote copied from the input.
C6_AttributeValuesAreEscaped ==
    pc = "done" =>
        \A k \in 1..Len(result) :
            result[k] \in AttributeOpeners
                => Range(ContentRun(result, k)) \cap AttributeUnsafe = {}

-----------------------------------------------------------------------------
(* C7 *)

OpenBlockKinds == {"fence", "dollar_math", "bracket_math"}

\* The iteration e entered the multi-line form of its rule
IsMultiLine(e) ==
    \/ e.kind = "fence"
    \/ e.kind = "dollar_math" /\ trim(At(lines, e.line)) = <<"$", "$">>
    \/ e.kind = "bracket_math" /\ trim(At(lines, e.line)) = <<"\\", "[">>

IsCloser(kind, line) ==
    CASE kind = "fence"        -> is_fence(line)
      [] kind = "dollar_math"  -> is_dollar_line(line)
      [] kind = "bracket_math" -> is_bracket_close_line(line)
      [] OTHER                 -> FALSE

Unterminated(e) ==
    /\ e.kind \in OpenBlockKinds
    /\ IsMultiLine(e)
    /\ \A j \in (e.line + 1)..(Len(lines) - 1) : ~IsCloser(e.kind, At(lines, j))

RECURSIVE DropLeadingEmpty(_)
DropLeadingEmpty(ls) ==
    IF ls # <<>> /\ Head(ls) = <<>> THEN DropLeadingEmpty(Tail(ls)) ELSE ls

\* The text of the lines after the opening line of e.  The math rules push
\* the "\n" between two lines only once latex is not empty, so empty lines
\* at the start add nothing to it.
ContentAfter(e) ==
    IF e.kind = "fence"
    THEN join_lines(SliceFrom(lines, e.line + 1))
    ELSE join_lines(DropLeadingEmpty(SliceFrom(lines, e.line + 1)))

BlockOpening(kind) ==
    IF kind = "fence" THEN "<div class=\"code-block\">"
    ELSE "<div class=\"katex-block\" data-latex=\""

\* The markup after which the content of the block follows
ContentOpening(kind) ==
    IF kind = "fence" THEN {"<pre><code>", "\">"} ELSE {"\">"}

BlockClosing(kind) ==
    IF kind = "fence" THEN "</code></pre></div>" ELSE "</div>"

ConsumesRest(e) ==
    LET n     == Len(ContentAfter(e))
        last  == Len(result)
        first == IF result[e.out + 1] \in {"</ul>", "</ol>"} THEN e.out + 2 ELSE e.out + 1
    IN  /\ i = Len(lines) + 1
        /\ result[first] = BlockOpening(e.kind)
        /\ first < last - n - 1
        /\ result[last - n - 1] \in ContentOpening(e.kind)
        /\ Unescape(SubSeq(result, last - n, last - 1)) = ContentAfter(e)
        /\ result[last] = BlockClosing(e.kind)

\* C7: an iteration that opens a fence, or a display-math block with $$ or
\* \[ alone on its line, with no closing line after it, is the last one of
\* the loop: the cursor is past the last line, the output ends with the
\* opening markup of the block, the text of all the remaining lines (once,
\* in order, escaped) and the closing tags of the block.
C7_UnterminatedBlockConsumesRest ==
    \A k \in 1..Len(trace) :
        Unterminated(trace[k]) => k = Len(trace) /\ ConsumesRest(trace[k])

C7_Witness ==
    /\ pc = "done"
    /\ \E k \in 1..Len(trace) :
          /\ Unterminated(trace[k])
          /\ trace[k].kind = "fence"
          /\ trace[k].line + 4 = Len(lines)
          /\ ContentAfter(trace[k]) = <<"x", "<", "\n", "\n", "-", " ", "a">>

-----------------------------------------------------------------------------
(* C8 *)

StreamingProps == {NoneOpt, Some(TRUE), Some(FALSE)}

\* C8: for the text of the message, RichContent gives the same inner HTML as
\* the one shown whether the streaming property is absent, true or false;
\* the property selects the class of the wrapper and nothing else.
C8_StreamingFlagOnlySetsClass ==
    \A f \in StreamingProps :
        LET el == RichContent(input, f)
        IN  /\ el.html = view.html
            /\ el.returned = view.returned
            /\ el.class = (IF f = Some(TRUE)
                           THEN "rich-content rich-content--streaming"
                           ELSE "rich-content")

C8_Witness ==
    /\ pc = "stream"
    /\ streaming
    /\ view.class = "rich-content rich-content--streaming"
    /\ view.returned
    /\ Flat(view.html) = "<p><strong>b</strong></p>"
    /\ RichContent(input, Some(FALSE)).class = "rich-content"

-----------------------------------------------------------------------------
(* C9 *)

ItemKinds == {"task", "unordered", "ordered"}

ListOpening(kind) ==
    CASE kind = "task"      -> "<ul class=\"task-list\">"
      [] kind = "unordered" -> "<ul>"
      [] kind = "ordered"   -> "<ol>"

ListClosing(kind) == IF kind = "ordered" THEN "</ol>" ELSE "</ul>"

ItemOpenings ==
    {"<li>", "<li class=\"task-list-item\">",
     "<li class=\"task-list-item task-list-item--checked\">"}

\* Iterations k < m are items of one kind with only blank lines between them
BlankSeparated(k, m) ==
    /\ k + 1 < m
    /\ trace[k].kind \in ItemKinds
    /\ trace[m].kind = trace[k].kind
    /\ \A j \in (k + 1)..(m - 1) : trace[j].kind = "empty"

\* Iterations k and k + 1 are items of one kind on adjacent lines
AdjacentItems(k) ==
    /\ trace[k].kind \in ItemKinds
    /\ trace[k + 1].kind = trace[k].kind
    /\ trace[k + 1].line = trace[k].line + 1

\* C9: an item that follows an item of the same kind after one or more blank
\* lines starts a new list: the output before it ends with the closing tag
\* of the list and the item writes the opening tag again.  An item on the
\* line after an item of the same kind writes its <li> right after the </li>
\* of that item, in the same list.
C9_BlankLineSplitsList ==
    /\ \A k, m \in 1..Len(trace) :
          BlankSeparated(k, m) =>
              /\ result[trace[m].out] = ListClosing(trace[k].kind)
              /\ result[trace[m].out + 1] = ListOpening(trace[m].kind)
              /\ result[trace[m].out + 2] \in ItemOpenings
    /\ \A k \in 1..(Len(trace) - 1) :
          AdjacentItems(k) =>
              /\ result[trace[k + 1].out] = "</li>"
              /\ result[trace[k + 1].out + 1] \in ItemOpenings

C9_Witness ==
    /\ pc = "done"
    /\ lines = <<<<"-", " ", "a">>, <<"-", " ", "a">>, <<>>, <<"-", " ", "a">>>>
    /\ BlankSeparated(2, 4)
    /\ AdjacentItems(1)
    /\ Flat(result) = "<ul><li>a</li><li>a</li></ul><ul><li>a</li></ul>"

-----------------------------------------------------------------------------
(* C10 *)

EmphasisDelimiters ==
    {<<"*">>, <<"_">>, <<"*", "*">>, <<"_", "_">>, <<"*", "*", "*">>}

EmphasisOpening(d) ==
    CASE Len(d) = 1 -> "<em>"
      [] Len(d) = 2 -> "<strong>"
      [] Len(d) = 3 -> "<strong><em>"

EmphasisClosing(d) ==
    CASE Len(d) = 1 -> "</em>"
      [] Len(d) = 2 -> "</strong>"
      [] Len(d) = 3 -> "</em></strong>"

\* The text between a leading and a trailing d
Between(text, d) == Slice(text, Len(d), Len(text) - Len(d))

\* text is one span: d, an inner text free of the character of d that does
\* not start with a space, d
IsSpan(text, d) ==
    /\ Len(text) > 2 * Len(d)
    /\ starts_with(text, d)
    /\ ends_with(text, d)
    /\ d[1] \notin Range(Between(text, d))
    /\ Between(text, d)[1] # " "

\* C10: the order of the markers is the order of the nesting: **_x_** gives
\* <strong><em>x</em></strong> and _**x**_ gives <em><strong>x</strong></em>;
\* the output of a span is its opening tag, the output of process_inline for
\* exactly the text between the delimiters, and its closing tag.
C10_EmphasisNesting ==
    pc = "done" =>
        /\ input = <<"*", "*", "_", "x", "_", "*", "*">> => Flat(result) = "<strong><em>x</em></strong>"
        /\ input = <<"_", "*", "*", "x", "*", "*", "_">> => Flat(result) = "<em><strong>x</strong></em>"
        /\ \A d \in EmphasisDelimiters :
              IsSpan(input, d) =>
                  result = <<EmphasisOpening(d)>>
                               \o process_inline(Between(input, d))
                               \o <<EmphasisClosing(d)>>

C10_Witness ==
    /\ pc = "done"
    /\ input = <<"*", "*", "_", "x", "_", "*", "*">>
    /\ IsSpan(input, <<"*", "*">>)
    /\ result = <<"<strong>", "<em>", "x", "</em>", "</strong>">>

-----------------------------------------------------------------------------
(* C11 *)

\* C11: for the empty input there are no lines, the loop makes no iteration
\* and render_markdown_to_html returns the empty string: no token at all is
\* written.
C11_EmptyInputEmptyOutput ==
    input = <<>> =>
        /\ lines = <<>>
        /\ trace = <<>>
        /\ result = <<>>

C11_Witness ==
    /\ pc = "done"
    /\ input = <<>>
    /\ Flat(result) = ""

-----------------------------------------------------------------------------
(* Vocabulary of the iterations recorded in trace. *)

LineOf(k) == At(lines, trace[k].line)

\* The cursor and the length of the output after iteration k
NextCursor(k) == IF k < Len(trace) THEN trace[k + 1].line ELSE i

OutEnd(k) == IF k < Len(trace) THEN trace[k + 1].out ELSE Len(result)

\* What iteration k wrote
IterOutput(k) == SubSeq(result, trace[k].out + 1, OutEnd(k))

-----------------------------------------------------------------------------
(* C12 *)

\* C12: a line that starts with "#" and is not a heading is taken by the
\* paragraph rule, which writes it inside a <p> element and moves the cursor
\* past it.
C12_MalformedHeadingIsParagraph ==
    \A k \in 1..Len(trace) :
        (trace[k].kind = "paragraph" /\ starts_with(trim_start(LineOf(k)), <<"#">>))
            => /\ NextCursor(k) > trace[k].line
               /\ "<p>" \in Range(IterOutput(k))

-----------------------------------------------------------------------------
(* C13 *)

HeadingOpening(n) == "<h" \o ToString(n) \o ">"

\* The number of "#" the text starts with
LeadingHashes(t) ==
    LET other == {k \in 1..Len(t) : t[k] # "#"}
    IN  IF other = {} THEN Len(t) ELSE SetMin(other) - 1

\* n "#", a space and a remainder that is not empty
IsHeadingOfLevel(line, n) ==
    LET t == trim_start(line)
    IN  /\ LeadingHashes(t) = n
        /\ Len(t) > n + 1
        /\ t[n + 1] = " "

\* C13: the line an iteration starts at is written as <hN>, 1 <= N <= 6, if
\* and only if it has N leading "#", a space and a remainder that is not
\* empty.
C13_HeadingIffWellFormed ==
    \A k \in 1..Len(trace) : \A n \in 1..6 :
        (HeadingOpening(n) \in Range(IterOutput(k))) <=> IsHeadingOfLevel(LineOf(k), n)

-----------------------------------------------------------------------------
(* C14 *)

\* The line, as the current line of the loop, is taken by a rule other than
\* the paragraph rule (blank lines included)
MatchesOtherRule(line) == block_kind(line) # "paragraph"

\* C14: the lines a paragraph iteration merges are a maximal run of lines
\* that match no other rule: none of the merged lines matches another rule,
\* and the line the run stops before, if there is one, does.
C14_ParagraphIsMaximalRun ==
    \A k \in 1..Len(trace) :
        (trace[k].kind = "paragraph" /\ NextCursor(k) > trace[k].line)
            => /\ \A j \in trace[k].line..(NextCursor(k) - 1) :
                      ~MatchesOtherRule(At(lines, j))
               /\ NextCursor(k) < Len(lines)
                      => MatchesOtherRule(At(lines, NextCursor(k)))

-----------------------------------------------------------------------------
(* C15 *)

\* The number of tokens of toks that are tok
CountOf(toks, tok) == Cardinality({m \in 1..Len(toks) : toks[m] = tok})

\* The trimmed line starts with "|" and ends with "|"
IsPipeBounded(line) ==
    LET t == trim(line)
    IN  t # <<>> /\ t[1] = "|" /\ t[Len(t)] = "|"

\* A header row: pipe-bounded with at least one more "|"
IsHeaderRow(line) == IsPipeBounded(line) /\ CountOf(trim(line), "|") >= 2

\* C15: when a line follows the header row of a table, the table iteration
\* consumes it as the separator and writes nothing for it: the cursor moves
\* past it, and the rows written in the body are the lines consumed after it.
C15_SeparatorLineIsSkipped ==
    \A k \in 1..Len(trace) :
        (/\ trace[k].kind = "table"
         /\ IsHeaderRow(LineOf(k))
         /\ trace[k].line + 1 < Len(lines))
            => /\ NextCursor(k) >= trace[k].line + 2
               /\ CountOf(IterOutput(k), "<tr>") = NextCursor(k) - (trace[k].line + 2)

-----------------------------------------------------------------------------
(* C16 *)

\* C16: the lines a table iteration consumes after the header row and the
\* separator position are all pipe-bounded, and the line it stops before, if
\* there is one, is not.
C16_BodyRowsArePipeBounded ==
    \A k \in 1..Len(trace) :
        (/\ trace[k].kind = "table"
         /\ IsHeaderRow(LineOf(k))
         /\ NextCursor(k) >= trace[k].line + 2)
            => /\ \A j \in (trace[k].line + 2)..(NextCursor(k) - 1) :
                      IsPipeBounded(At(lines, j))
               /\ NextCursor(k) < Len(lines)
                      => ~IsPipeBounded(At(lines, NextCursor(k)))

-----------------------------------------------------------------------------
(* C17 *)

TableOpening == "<div class=\"table-wrapper\"><table>"

\* C17: an iteration writes a table only when the trimmed form of its line
\* starts with "|", ends with "|" and holds at least one more "|".
C17_TableNeedsTwoPipes ==
    \A k \in 1..Len(trace) :
        TableOpening \in Range(IterOutput(k)) => IsHeaderRow(LineOf(k))

-----------------------------------------------------------------------------
(* C18 *)

KatexBlockOpening == "<div class=\"katex-block\" data-latex=\""

\* s occurs in t at the (0-based) position p
OccursAt(t, s, p) == p + Len(s) <= Len(t) /\ SubSeq(t, p + 1, p + Len(s)) = s

Occurs(t, s) == \E p \in 0..Len(t) : OccursAt(t, s, p)

\* The trimmed line is $$ alone, or $$ with another $$ after it
IsDollarMathLine(line) ==
    LET t == trim(line)
    IN  \/ t = <<"$", "$">>
        \/ /\ OccursAt(t, <<"$", "$">>, 0)
           /\ Occurs(SubSeq(t, 3, Len(t)), <<"$", "$">>)

\* C18: an iteration on a line that starts with $$ writes a katex-block only
\* when the trimmed line is exactly $$ or holds a closing $$ after the
\* opening one.
C18_DollarMathNeedsCloser ==
    \A k \in 1..Len(trace) :
        (/\ OccursAt(trim(LineOf(k)), <<"$", "$">>, 0)
         /\ KatexBlockOpening \in Range(IterOutput(k)))
            => IsDollarMathLine(LineOf(k))

-----------------------------------------------------------------------------
(* C19 *)

\* Iteration k took the single-line form of a display-math rule
IsSingleLineMath(k) ==
    \/ trace[k].kind = "dollar_math" /\ trim(LineOf(k)) # <<"$", "$">>
    \/ trace[k].kind = "bracket_math" /\ trim(LineOf(k)) # <<"\\", "[">>

MathDelimiters(kind) ==
    IF kind = "dollar_math" THEN {<<"$", "$">>}
    ELSE {<<"\\", "[">>, <<"\\", "]">>}

\* The math source in the data-latex attribute that opens at position m, and
\* in the text of the element
LatexAttribute(m) == Unescape(ContentRun(result, m))

LatexText(m) == Unescape(ContentRun(result, m + Len(ContentRun(result, m)) + 1))

\* C19: the math source that a single-line display-math iteration writes, in
\* data-latex and in the text of the element, holds neither the opening nor
\* the closing delimiter.
C19_SingleLineMathStripsDelimiters ==
    \A k \in 1..Len(trace) :
        IsSingleLineMath(k) =>
            \A m \in (trace[k].out + 1)..OutEnd(k) :
                result[m] = KatexBlockOpening =>
                    \A d \in MathDelimiters(trace[k].kind) :
                        /\ ~Occurs(LatexAttribute(m), d)
                        /\ ~Occurs(LatexText(m), d)

-----------------------------------------------------------------------------
(* C20 *)

\* The order of the rules of the line loop
DispatchOrder ==
    <<"fence", "math", "table", "hr", "header", "blockquote", "task",
      "unordered", "ordered", "empty", "html", "paragraph">>

\* The predicate of each rule
Satisfies(kind, line) ==
    CASE kind = "fence"      -> is_fence(line)
      [] kind = "math"       -> \/ OccursAt(trim(line), <<"$", "$">>, 0)
                                \/ OccursAt(trim(line), <<"\\", "[">>, 0)
      [] kind = "table"      -> is_table_line(line)
      [] kind = "hr"         -> is_horizontal_rule(line)
      [] kind = "header"     -> is_header(line)
      [] kind = "blockquote" -> is_blockquote(line)
      [] kind = "task"       -> is_task_list_item(line)
      [] kind = "unordered"  -> is_unordered_item(line)
      [] kind = "ordered"    -> parse_ordered_list_item(line).ok
      [] kind = "empty"      -> trim(line) = <<>>
      [] kind = "html"       -> is_html_passthrough(line)
      [] kind = "paragraph"  -> TRUE

FirstKind(line) ==
    DispatchOrder[SetMin({n \in 1..Len(DispatchOrder) : Satisfies(DispatchOrder[n], line)})]

ListClosings == {"</ul>", "</ol>"}

\* The first token iteration k wrote after the closing tag of a list, "" if
\* it wrote nothing else
FirstMarkup(k) ==
    LET own == {m \in (trace[k].out + 1)..OutEnd(k) : result[m] \notin ListClosings}
    IN  IF own = {} THEN "" ELSE result[SetMin(own)]

\* What the rule of each kind writes first
MarkupOf(kind, line) ==
    CASE kind = "fence"      -> {"<div class=\"code-block\">"}
      [] kind = "math"       -> {KatexBlockOpening}
      [] kind = "table"      -> {TableOpening}
      [] kind = "hr"         -> {"<hr>"}
      [] kind = "header"     -> {HeadingOpening(n) : n \in 1..6}
      [] kind = "blockquote" -> {"<blockquote>"}
      [] kind = "task"       -> {"<ul class=\"task-list\">", "<li class=\"task-list-item\">",
                                 "<li class=\"task-list-item task-list-item--checked\">"}
      [] kind = "unordered"  -> {"<ul>", "<li>"}
      [] kind = "ordered"    -> {"<ol>", "<li>"}
      [] kind = "empty"      -> {""}
      [] kind = "html"       -> {Head(line)}
      [] kind = "paragraph"  -> {"<p>", ""}

KindName(kind) == IF kind \in {"dollar_math", "bracket_math"} THEN "math" ELSE kind

\* C20: the rule that takes the line of an iteration is the first one, in
\* the order of DispatchOrder, whose predicate the line satisfies, and the
\* iteration writes what that rule writes: - [x] t is a task item, *** is a
\* thematic break.
C20_FirstMatchingRuleWins ==
    \A k \in 1..Len(trace) :
        /\ KindName(trace[k].kind) = FirstKind(LineOf(k))
        /\ FirstMarkup(k) \in MarkupOf(FirstKind(LineOf(k)), LineOf(k))
        /\ LineOf(k) = <<"-", " ", "[", "x", "]", " ", "t">>
               => FirstMarkup(k) \in MarkupOf("task", LineOf(k))
        /\ LineOf(k) = <<"*", "*", "*">> => FirstMarkup(k) = "<hr>"

C20_Witness ==
    /\ pc = "done"
    /\ lines = <<<<"-", " ", "[", "x", "]", " ", "t">>, <<"*", "*", "*">>>>
    /\ Len(trace) = 2
    /\ Flat(result) = "<ul class=\"task-list\"><li class=\"task-list-item task-list-item--checked\"><span class=\"task-checkbox task-checkbox--checked\">&#9745;</span> t</li></ul><hr>"

-----------------------------------------------------------------------------
(* C21 *)

ListOpenings == {"<ul>", "<ul class=\"task-list\">", "<ol>"}

ListTagType(tok) == IF tok \in {"<ol>", "</ol>"} THEN "ol" ELSE "ul"

\* The list that is open after the tokens: "none", "ul", "ol", or "bad" once
\* a list was opened inside an open list or a closing tag did not match the
\* open list
ListStep(s, tok) ==
    IF s = "bad" THEN "bad"
    ELSE IF tok \in ListOpenings
         THEN (IF s = "none" THEN ListTagType(tok) ELSE "bad")
    ELSE IF tok \in ListClosings
         THEN (IF s = ListTagType(tok) THEN "none" ELSE "bad")
    ELSE s

\* The list tag at position n: a tag the renderer wrote, or one that starts
\* there in characters copied from the input; "" if there is none
ListTagAt(toks, n) ==
    IF toks[n] \in ListOpenings \cup ListClosings THEN toks[n]
    ELSE IF StartsAt(toks, n, <<"<", "u", "l", ">">>) THEN "<ul>"
    ELSE IF StartsAt(toks, n, <<"<", "o", "l", ">">>) THEN "<ol>"
    ELSE IF StartsAt(toks, n, <<"<", "/", "u", "l", ">">>) THEN "</ul>"
    ELSE IF StartsAt(toks, n, <<"<", "/", "o", "l", ">">>) THEN "</ol>"
    ELSE ""

RECURSIVE ListScan(_, _)
ListScan(toks, n) ==
    IF n = 0 THEN "none" ELSE ListStep(ListScan(toks, n - 1), ListTagAt(toks, n))

ListKindType(kind) == IF kind = "ordered" THEN "ol" ELSE "ul"

\* C21: the list tags of the output are balanced, never nested and matched:
\* the list open after the output written so far is the one the pass holds
\* in in_list and list_type, and none is open when the pass has ended.  A
\* rule that is not an item rule closes the open list before anything else,
\* and an item of the other list type closes it and opens its own.
C21_ListTagsBalanced ==
    /\ ListScan(result, Len(result)) # "bad"
    /\ pc = "loop" =>
           ListScan(result, Len(result)) = (IF in_list THEN list_type ELSE "none")
    /\ pc = "done" => ListScan(result, Len(result)) = "none"
    /\ \A k \in 1..Len(trace) :
           LET open == ListScan(result, trace[k].out)
           IN  /\ (open # "none" /\ trace[k].kind \notin ItemKinds)
                      => /\ OutEnd(k) > trace[k].out
                         /\ result[trace[k].out + 1] = "</" \o open \o ">"
               /\ (open # "none" /\ trace[k].kind \in ItemKinds
                                 /\ ListKindType(trace[k].kind) # open)
                      => /\ result[trace[k].out + 1] = "</" \o open \o ">"
                         /\ result[trace[k].out + 2] = ListOpening(trace[k].kind)

-----------------------------------------------------------------------------
(* C22: an opener that nothing closes is shown literally. *)

\* The delimiter that opens at position ci of the text has no closer in the
\* rest of the text.
IsLoneOpener(text, ci) ==
    LET c    == At(text, ci)
        rest == SliceFrom(text, ci + 1)
    IN  \/ c \in {BACKTICK, "$", "^", "*", "_"} /\ c \notin Range(rest)
        \/ c = "[" /\ "]" \notin Range(rest)
        \/ c = "!" /\ rest # <<>> /\ Head(rest) = "[" /\ "]" \notin Range(rest)
        \/ c = "~" /\ rest # <<>> /\ Head(rest) = "~"
                   /\ ~Occurs(Tail(rest), <<"~", "~">>)
        \/ c = "~" /\ ~Occurs(rest, <<"~", "~">>)

\* No rule but the last one of the rules rs matches.
NoRuleMatches(rs) == \A n \in 1..(Len(rs) - 1) : ~rs[n].ok

\* r, what the iteration at ci did, is the escaped character at ci and a
\* cursor one character further
IsLiteralStep(text, ci, r) ==
    /\ r.out = escape_html_char(At(text, ci))
    /\ Len(r.out) = 1
    /\ IsContent(r.out[1])
    /\ r.next = ci + 1

LoneOpenerStep(text, ci, rs) ==
    (NoRuleMatches(rs) \/ IsLoneOpener(text, ci)) => IsLiteralStep(text, ci, first_match(rs))

\* C22: at a cursor position where no rule matches, and so at every opener
\* that has no closer later in the text, the iteration writes exactly the
\* escaped character at the cursor and continues one character further; a
\* text that starts with such an opener is rendered as that character,
\* escaped and not as an element, followed by the rendering of the rest.
C22_LoneOpenerIsLiteral ==
    /\ \A ci \in 0..(Len(input) - 1) : LoneOpenerStep(input, ci, inline_rules(input, ci))
    /\ (pc = "done" /\ input # <<>> /\ IsLoneOpener(input, 0))
           => result = escape_html_char(Head(input)) \o process_inline(Tail(input))

\* a lone backtick before a bold span: the backtick is literal, the span is
\* still rendered
C22_Witness ==
    /\ pc = "done"
    /\ input = <<BACKTICK, "*", "*", "b", "*", "*">>
    /\ IsLoneOpener(input, 0)
    /\ result = <<BACKTICK, "<strong>", "b", "</strong>">>

-----------------------------------------------------------------------------
(* C23: the content of code, inline math and superscript spans is literal. *)

KatexInlineOpening == "<span class=\"katex-inline\" data-latex=\""

\* toks is the escaped form of the text v and nothing else: content tokens
\* only, none of them a raw markup character, that read back as v
IsEscapedCopy(toks, v) ==
    /\ \A k \in 1..Len(toks) : IsContent(toks[k]) /\ toks[k] \notin MarkupChars
    /\ Unescape(toks) = v

\* out is the opening tag, the escaped copy of v and the closing tag
IsLiteralSpan(out, opening, closing, v) ==
    /\ Len(out) = Len(v) + 2
    /\ out[1] = opening
    /\ out[Len(out)] = closing
    /\ IsEscapedCopy(SubSeq(out, 2, Len(out) - 1), v)

\* out is the katex-inline element of v: v escaped in the attribute and
\* again as the text of the element
IsLiteralMath(out, v) ==
    /\ Len(out) = 2 * Len(v) + 3
    /\ out[1] = KatexInlineOpening
    /\ IsEscapedCopy(SubSeq(out, 2, Len(v) + 1), v)
    /\ out[Len(v) + 2] = "\">"
    /\ IsEscapedCopy(SubSeq(out, Len(v) + 3, Len(out) - 1), v)
    /\ out[Len(out)] = "</span>"

\* What one iteration at ci wrote is a literal span of the text it consumed
StepIsLiteral(text, ci, r) ==
    /\ r.out[1] = "<code>"
           => IsLiteralSpan(r.out, "<code>", "</code>", Slice(text, ci + 1, r.next - 1))
    /\ r.out[1] = "<sup>"
           => IsLiteralSpan(r.out, "<sup>", "</sup>", Slice(text, ci + 1, r.next - 1))
    /\ (r.out[1] = KatexInlineOpening /\ At(text, ci) = "$")
           => IsLiteralMath(r.out, Slice(text, ci + 1, r.next - 1))
    /\ (r.out[1] = KatexInlineOpening /\ At(text, ci) = "\\")
           => IsLiteralMath(r.out, Slice(text, ci + 2, r.next - 2))

\* C23: whenever an iteration of the inline loop writes a code span, inline
\* math or a superscript, what stands between the tags is the text between
\* the delimiters, escaped character by character: no element comes from
\* markup inside it.  A text that is one such span is rendered as that one
\* element.
C23_LiteralSpansAreNotProcessed ==
    /\ \A ci \in 0..(Len(input) - 1) : StepIsLiteral(input, ci, inline_step(input, ci))
    /\ pc = "done" =>
           \A d \in LiteralSpanDelims, v \in InnerMarkup :
               input = d[1] \o v \o d[2]
                   => /\ result = inline_step(input, 0).out
                      /\ \A k \in 2..(Len(result) - 1) :
                             IsContent(result[k]) \/ result[k] = "\">"

C23_Witness ==
    /\ pc = "done"
    /\ input = <<"^", "*", "*", "a", "*", "*", "^">>
    /\ result = <<"<sup>", "*", "*", "a", "*", "*", "</sup>">>

-----------------------------------------------------------------------------
(* C24: how the lines of a paragraph are joined. *)

\* The lines iteration k consumed
LinesOf(k) == Slice(lines, trace[k].line, NextCursor(k))

IsHardBreakLine(line) == ends_with(line, <<"\\">>) \/ ends_with(line, <<" ", " ">>)

\* The number of joins of ls whose earlier line asks for a hard break
HardJoins(ls) == Cardinality({m \in 1..(Len(ls) - 1) : IsHardBreakLine(ls[m])})

RECURSIVE DropTrailingSpaces(_)
DropTrailingSpaces(line) ==
    IF line # <<>> /\ line[Len(line)] = " "
    THEN DropTrailingSpaces(SubSeq(line, 1, Len(line) - 1))
    ELSE line

\* The earlier line of a hard join without its backslash or trailing spaces
WithoutBreakMark(line) ==
    IF line[Len(line)] = "\\" THEN SubSeq(line, 1, Len(line) - 1)
    ELSE DropTrailingSpaces(line)

\* The content of the paragraph of the lines ls, for lines without markup
RECURSIVE JoinedPlain(_)
JoinedPlain(ls) ==
    IF Len(ls) = 1 THEN Head(ls)
    ELSE (IF IsHardBreakLine(Head(ls))
          THEN WithoutBreakMark(Head(ls)) \o <<"<br>">>
          ELSE Head(ls) \o <<" ">>) \o JoinedPlain(Tail(ls))

IsPlainLine(line) == Range(line) \subseteq {"a", "b", "x", " ", "\\"}

\* What stands between <p> and </p> in what iteration k wrote
ParagraphContent(k) ==
    LET out == IterOutput(k)
        a   == SetMin({m \in 1..Len(out) : out[m] = "<p>"})
        b   == SetMax({m \in 1..Len(out) : out[m] = "</p>"})
    IN  SubSeq(out, a + 1, b - 1)

\* C24: a paragraph has one <br> element for each of its joins whose earlier
\* line ends in a backslash or in two spaces and none for the other joins;
\* for lines without markup the content of the paragraph is the lines in
\* order, joined by a single space or, at such a join, by <br> with the
\* backslash or the trailing spaces removed.
C24_ParagraphJoin ==
    \A k \in 1..Len(trace) :
        (trace[k].kind = "paragraph" /\ LinesOf(k) # <<>>)
            => /\ CountOf(IterOutput(k), "<br>") = HardJoins(LinesOf(k))
               /\ (\A m \in 1..Len(LinesOf(k)) : IsPlainLine(LinesOf(k)[m]))
                      => ParagraphContent(k) = JoinedPlain(LinesOf(k))

-----------------------------------------------------------------------------
(* C25: the closers of a link or image. *)

\* The first position from start on that holds delim with no backslash
\* before it, or None
NextUnescaped(chars, start, delim) ==
    LET hits == {j \in start..(Len(chars) - 1) :
                    /\ At(chars, j) = delim
                    /\ (j = 0 \/ At(chars, j - 1) # "\\")}
    IN  IF hits = {} THEN None ELSE SetMin(hits)

\* The link or image that starts at the "[" at position start, with the
\* closers taken at the next "]" and the next ")" that are not escaped
UnescapedLink(chars, start) ==
    LET cb == NextUnescaped(chars, start + 1, "]")
    IN  IF cb = None \/ cb + 1 >= Len(chars) \/ At(chars, cb + 1) # "("
        THEN [ok |-> FALSE]
        ELSE LET cp == NextUnescaped(chars, cb + 2, ")")
             IN  IF cp = None THEN [ok |-> FALSE]
                 ELSE [ok   |-> TRUE,
                       text |-> Slice(chars, start + 1, cb),
                       url  |-> Slice(chars, cb + 2, cp),
                       end  |-> cp + 1]

\* C25: at every "[" of the text, the link or image found there is the one
\* whose text ends at the next "]" with no backslash before it and whose URL
\* ends at the next ")" with no backslash before it; a text that is one such
\* link is rendered as one <a> element.
C25_LinkClosersAreUnescaped ==
    /\ pc = "done" =>
           \A ci \in 0..(Len(input) - 1) :
               At(input, ci) = "["
                   => parse_link_or_image(input, ci) = UnescapedLink(input, ci)
    /\ (/\ pc = "done"
        /\ input # <<>>
        /\ Head(input) = "["
        /\ UnescapedLink(input, 0).ok
        /\ UnescapedLink(input, 0).end = Len(input))
           => /\ result[1] = "<a href=\""
              /\ result[Len(result)] = "</a>"

-----------------------------------------------------------------------------
(* C30: process_inline terminates. *)

\* The part of the text that the iteration at ci, which wrote the span r,
\* handed to the recursive call: what lies between the delimiters of the
\* span, or the text of the link
HasInner(r) ==
    r.out[1] \in {"<strong><em>", "<strong>", "<del>", "<em>", "<a href=\""}

InnerOf(text, ci, r) ==
    CASE r.out[1] = "<strong><em>" -> Slice(text, ci + 3, r.next - 3)
      [] r.out[1] = "<strong>"     -> Slice(text, ci + 2, r.next - 2)
      [] r.out[1] = "<del>"        -> Slice(text, ci + 2, r.next - 2)
      [] r.out[1] = "<em>"         -> Slice(text, ci + 1, r.next - 1)
      [] r.out[1] = "<a href=\""   -> Slice(text, ci + 1, find_closing(text, ci + 1, "]"))

\* The tokens r.out ends with after the recursive call
ClosingOf(r) ==
    CASE r.out[1] = "<strong><em>" -> "</em></strong>"
      [] r.out[1] = "<strong>"     -> "</strong>"
      [] r.out[1] = "<del>"        -> "</del>"
      [] r.out[1] = "<em>"         -> "</em>"
      [] r.out[1] = "<a href=\""   -> "</a>"
      [] OTHER                     -> ""

\* The iteration at ci moves the cursor forward and not past the end, and a
\* recursive call it makes is on a strictly shorter text
StepTerminates(text, ci, r) ==
    /\ r.next > ci
    /\ r.next <= Len(text)
    /\ HasInner(r)
           => /\ Len(InnerOf(text, ci, r)) < Len(text)
              /\ ends_with(r.out, process_inline(InnerOf(text, ci, r)) \o <<ClosingOf(r)>>)

\* C30: at every cursor position of every text the iteration of the inline
\* loop ends with the cursor at least one character further, and the text a
\* bold, italic, bold-italic, strikethrough or link rule hands to the
\* recursive call is strictly shorter than the text of the call; the call of
\* process_inline returns.
C30_InlineTerminates ==
    /\ \A ci \in 0..(Len(input) - 1) : StepTerminates(input, ci, inline_step(input, ci))
    /\ pc = "done" => result = process_inline(input)

\* a bold span around an italic span has been rendered: two nested calls
C30_Witness ==
    /\ pc = "done"
    /\ input = <<"*", "*", "_", "x", "_", "*", "*">>
    /\ result = <<"<strong>", "<em>", "x", "</em>", "</strong>">>

-----------------------------------------------------------------------------
(* Specification SpecSse: one call of stream_chat (api.rs 101-178).  input *)
(* is the body of the response, i the number of its characters that have   *)
(* been read, pc is "read" until the call returns Ok ("ok") or Err ("err"). *)

\* str::strip_prefix
strip_prefix(s, p) == IF starts_with(s, p) THEN Some(SliceFrom(s, Len(p))) ELSE NoneOpt

\* serde_json::from_str::<String>, for JSON strings without escapes
json_string(data) ==
    LET t == trim(data)
    IN  IF /\ Len(t) >= 2
           /\ t[1] = "\""
           /\ t[Len(t)] = "\""
           /\ \A k \in 2..(Len(t) - 1) : t[k] \notin {"\"", "\\"}
        THEN Some(SubSeq(t, 2, Len(t) - 1))
        ELSE NoneOpt

\* serde_json::from_str::<Vec<String>>, for the empty list and lists of one
\* string
json_string_list(data) ==
    LET t == trim(data)
    IN  IF t = <<"[", "]">> THEN Some(<<>>)
        ELSE IF Len(t) >= 2 /\ t[1] = "[" /\ t[Len(t)] = "]"
                            /\ json_string(SubSeq(t, 2, Len(t) - 1)).some
             THEN Some(<<json_string(SubSeq(t, 2, Len(t) - 1)).val>>)
        ELSE NoneOpt

\* serde_json::from_str::<Vec<SourceContext>>, for the empty list; the data
\* of the model holds no context objects
json_contexts(data) == IF trim(data) = <<"[", "]">> THEN Some(<<>>) ELSE NoneOpt

\* StreamEvent values
StreamEvent(type, val) == [type |-> type, val |-> val]

\* for line in event_text.lines() { ... } (149-155): the last event: line
\* gives the type, the last data: line the data
RECURSIVE sse_fields(_, _)
sse_fields(ls, st) ==
    IF ls = <<>> THEN st
    ELSE LET ev == strip_prefix(Head(ls), <<"e", "v", "e", "n", "t", ":", " ">>)
             da == strip_prefix(Head(ls), <<"d", "a", "t", "a", ":", " ">>)
         IN  sse_fields(Tail(ls),
                        IF ev.some THEN [st EXCEPT !.event_type = trim(ev.val)]
                        ELSE IF da.some THEN [st EXCEPT !.data = da.val]
                        ELSE st)

\* match event_type.as_str() { ... } (157-177)
sse_event(event_type, data) ==
    IF event_type = <<"s", "o", "u", "r", "c", "e", "s">>
    THEN Some(StreamEvent("Sources", unwrap_or(json_string_list(data), <<>>)))
    ELSE IF event_type = <<"c", "o", "n", "t", "e", "x", "t", "s">>
    THEN Some(StreamEvent("Contexts", unwrap_or(json_contexts(data), <<>>)))
    ELSE IF event_type = <<"t", "o", "k", "e", "n">>
    THEN Some(StreamEvent("Token", unwrap_or(json_string(data), <<>>)))
    ELSE IF event_type = <<"d", "o", "n", "e">>
    THEN Some(StreamEvent("Done", <<>>))
    ELSE IF event_type = <<"e", "r", "r", "o", "r">>
    THEN Some(StreamEvent("Error", unwrap_or(json_string(data), data)))
    ELSE NoneOpt

\* parse_next_sse_event (142-178): the value returned and the buffer it
\* leaves.  The ? on buffer.find returns None with the buffer untouched;
\* otherwise the block is drained from the buffer whatever its type.
parse_next_sse_event(buf) ==
    LET end_idx == find(buf, <<"\n", "\n">>)
    IN  IF end_idx = None THEN [event |-> NoneOpt, buffer |-> buf]
        ELSE LET event_text == Slice(buf, 0, end_idx + 2)
                 f == sse_fields(str_lines(event_text), [event_type |-> <<>>, data |-> <<>>])
             IN  [event |-> sse_event(f.event_type, f.data),
                  buffer |-> SliceFrom(buf, end_idx + 2)]

\* while let Some(event) = parse_next_sse_event(&mut buffer) { on_event(event); }
\* (122-124, 130-132): the events handed to on_event and the buffer left
RECURSIVE sse_drain_loop(_)
sse_drain_next(p) ==
    IF p.event.some
    THEN LET r == sse_drain_loop(p.buffer)
         IN  [events |-> <<p.event.val>> \o r.events, buffer |-> r.buffer]
    ELSE [events |-> <<>>, buffer |-> p.buffer]

sse_drain_loop(buf) == sse_drain_next(parse_next_sse_event(buf))

\* The event blocks a response body is made of: one of each known type, a
\* block of a type the client does not know and a comment block with no
\* event: line.
TokenBlock ==
    <<"e", "v", "e", "n", "t", ":", " ", "t", "o", "k", "e", "n", "\n", "d", "a", "t", "a", ":", " ", "\"", "a", "\"", "\n", "\n">>

SourcesBlock ==
    <<"e", "v", "e", "n", "t", ":", " ", "s", "o", "u", "r", "c", "e", "s", "\n", "d", "a", "t", "a", ":", " ", "[", "\"", "s", "\"", "]", "\n", "\n">>

ContextsBlock ==
    <<"e", "v", "e", "n", "t", ":", " ", "c", "o", "n", "t", "e", "x", "t", "s", "\n", "d", "a", "t", "a", ":", " ", "[", "]", "\n", "\n">>

DoneBlock ==
    <<"e", "v", "e", "n", "t", ":", " ", "d", "o", "n", "e", "\n", "\n">>

ErrorBlock ==
    <<"e", "v", "e", "n", "t", ":", " ", "e", "r", "r", "o", "r", "\n", "d", "a", "t", "a", ":", " ", "\"", "e", "\"", "\n", "\n">>

PingBlock ==
    <<"e", "v", "e", "n", "t", ":", " ", "p", "i", "n", "g", "\n", "\n">>

CommentBlock ==
    <<":", " ", "k", "\n", "\n">>

SseBlocks ==
    {TokenBlock, SourcesBlock, ContextsBlock, DoneBlock, ErrorBlock, PingBlock, CommentBlock}

\* The blocks of the longer bodies
SseCoreBlocks == {TokenBlock, DoneBlock, PingBlock, CommentBlock}

\* What a body may end with: nothing, or a block that is cut short
SseTails == {<<>>, <<"e", "v", "e", "n", "t", ":", " ", "d", "o", "n", "e", "\n">>}

SseBodies ==
    {Concat(d) \o t :
        d \in SeqsUpTo(SseBlocks, MaxSseBlocks) \cup SeqsUpTo(SseCoreBlocks, MaxSseCoreBlocks),
        t \in SseTails}

InitSse ==
    /\ input \in SseBodies
    /\ i = 0
    /\ buffer = <<>>
    /\ events = <<>>
    /\ pc = "read"
    /\ lines = <<>>
    /\ in_list = FALSE
    /\ list_type = ""
    /\ result = <<>>
    /\ trace = <<>>
    /\ pending = <<>>
    /\ streaming = FALSE
    /\ view = NoView
    /\ NoChat

\* reader.read() resolves with a chunk (done = false): the chunk is appended
\* to the buffer and the buffer is parsed (115-126).  The network cuts the
\* body into chunks at any position.
SseChunk ==
    /\ pc = "read"
    /\ \E n \in 1..(Len(input) - i) :
          LET r == sse_drain_loop(buffer \o Slice(input, i, i + n))
          IN  /\ i' = i + n
              /\ buffer' = r.buffer
              /\ events' = events \o r.events
    /\ UNCHANGED <<input, lines, in_list, list_type, result, pc, trace, pending, streaming, view>>
    /\ UNCHANGED chat_vars

\* reader.read() resolves with done = true: the rest of the buffer is parsed
\* and the loop is left with Ok(()) (128-138)
SseDone ==
    /\ pc = "read"
    /\ i = Len(input)
    /\ LET r == sse_drain_loop(buffer)
       IN  /\ buffer' = r.buffer
           /\ events' = events \o r.events
    /\ pc' = "ok"
    /\ UNCHANGED <<input, lines, i, in_list, list_type, result, trace, pending, streaming, view>>
    /\ UNCHANGED chat_vars

\* reader.read() is rejected: the ? returns Err("Read failed: ...") (106-109)
SseReadFails ==
    /\ pc = "read"
    /\ pc' = "err"
    /\ UNCHANGED <<input, lines, i, in_list, list_type, result, trace, pending, streaming, view>>
    /\ UNCHANGED sse_vars
    /\ UNCHANGED chat_vars

NextSse == SseChunk \/ SseDone \/ SseReadFails

SpecSse == InitSse /\ [][NextSse]_vars

-----------------------------------------------------------------------------
(* C29 *)

\* The events of the known types among the complete blocks of the text, in
\* the order of the blocks
RECURSIVE KnownEvents(_)
KnownEventsNext(p) ==
    (IF p.event.some THEN <<p.event.val>> ELSE <<>>) \o KnownEvents(p.buffer)

KnownEvents(text) ==
    IF find(text, <<"\n", "\n">>) = None THEN <<>>
    ELSE KnownEventsNext(parse_next_sse_event(text))

\* C29: whenever stream_chat waits for the next chunk, and when it has
\* returned, the events it has handed to on_event are the events of the
\* known types among the complete blocks of what it has read, each once and
\* in the order of arrival: a block of an unknown type or without an event:
\* line neither holds back nor loses the events after it.
C29_EveryKnownEventIsDelivered ==
    (i > 0 \/ pc # "read") => events = KnownEvents(Slice(input, 0, i))

-----------------------------------------------------------------------------
(* Specification SpecChat: the handlers of the chat page (chat.rs 172-520)  *)
(* and the tasks they spawn.  The page runs on one thread: a handler, and   *)
(* the code of a task between two awaits, is one step.                      *)

\* ChatMessage.  mid is history: the identity of the message, which the
\* copies of it in sessions and on the server keep.
ChatMessage(role, text, is_streaming, mid) ==
    [role |-> role, text |-> text, sources |-> <<>>, source_contexts |-> <<>>,
     streaming |-> is_streaming, mid |-> mid]

ChatSession(id, msgs) == [id |-> id, messages |-> msgs]

\* new_id (23-28): format!("s-{id}") of the counter
new_id(n) == <<"s-1", "s-2", "s-3", "s-4">>[n]

\* The identities of the two messages the k-th task is spawned with
UserMid(k) == 10 * k + 1

PlaceholderMid(k) == 10 * k + 2

\* The two sessions the server holds when the page is loaded
StoredSessions ==
    [a |-> <<ChatMessage("User", <<"qa">>, FALSE, 1), ChatMessage("Assistant", <<"ra">>, FALSE, 2)>>,
     b |-> <<ChatMessage("User", <<"qb">>, FALSE, 3), ChatMessage("Assistant", <<"rb">>, FALSE, 4)>>]

\* The payload of the events of a stream
EventValues ==
    [Token |-> {"t"}, Sources |-> {<<"s">>}, Contexts |-> {<<"c">>}, Done |-> {<<>>}, Error |-> {"e"}]

EventTypes == {"Token", "Sources", "Contexts", "Done", "Error"}

\* Vec::iter().position / find on the list of sessions
session_index(sess, id) ==
    LET hits == {k \in 1..Len(sess) : sess[k].id = id}
    IN  IF hits = {} THEN None ELSE SetMin(hits)

\* if let Some(s) = sess.iter_mut().find(|s| s.id == id) { s.messages = msgs }
update_session(sess, id, msgs) ==
    IF session_index(sess, id) = None THEN sess
    ELSE [sess EXCEPT ![session_index(sess, id)].messages = msgs]

\* the same with the else branch that pushes a new ChatSession (252-258, 377-384)
update_or_push_session(sess, id, msgs) ==
    IF session_index(sess, id) = None THEN Append(sess, ChatSession(id, msgs))
    ELSE update_session(sess, id, msgs)

\* save_session (api.rs 413-426): the messages that are not streaming, with
\* role, text and sources; what fetch_session gives back for them has no
\* contexts and is not streaming (chat.rs 321-335)
RECURSIVE saved_messages(_)
saved_messages(msgs) ==
    IF msgs = <<>> THEN <<>>
    ELSE (IF Head(msgs).streaming THEN <<>>
          ELSE <<[Head(msgs) EXCEPT !.source_contexts = <<>>]>>) \o saved_messages(Tail(msgs))

save_session(srv, id, msgs) ==
    IF \E k \in 1..Len(srv) : srv[k].id = id
    THEN update_session(srv, id, saved_messages(msgs))
    ELSE Append(srv, ChatSession(id, saved_messages(msgs)))

\* api::delete_session
delete_session(srv, id) == SelectSeq(srv, LAMBDA s : s.id # id)

\* The closure handed to stream_chat (192-222, 456-486): what an event does
\* to the last message
on_event(last, ev) ==
    CASE ev.type = "Token"    -> [last EXCEPT !.text = @ \o <<ev.val>>]
      [] ev.type = "Sources"  -> [last EXCEPT !.sources = ev.val]
      [] ev.type = "Contexts" -> [last EXCEPT !.source_contexts = ev.val]
      [] ev.type = "Done"     -> [last EXCEPT !.streaming = FALSE]
      [] ev.type = "Error"    -> [last EXCEPT !.text = <<"Error: ", ev.val>>,
                                              !.streaming = FALSE]

\* if let Some(last) = msgs.last_mut() { ... }
with_last(msgs, ev) ==
    IF msgs = <<>> THEN msgs ELSE [msgs EXCEPT ![Len(msgs)] = on_event(@, ev)]

\* if let Err(err) = result { ... if last.streaming { ... } } (226-234, 490-498)
after_stream(msgs, res) ==
    IF res = "err" /\ msgs # <<>> /\ msgs[Len(msgs)].streaming
    THEN [msgs EXCEPT ![Len(msgs)] = [@ EXCEPT !.text = <<"Error: ", "transport">>,
                                               !.streaming = FALSE]]
    ELSE msgs

\* The page after the sessions were loaded (92-170): the server holds two
\* sessions, of which the first is fetched and shown, or holds none and a
\* new id is made
InitChat ==
    /\ \/ /\ server = <<ChatSession("a", StoredSessions.a), ChatSession("b", StoredSessions.b)>>
          /\ sessions = <<ChatSession("a", StoredSessions.a), ChatSession("b", <<>>)>>
          /\ messages = StoredSessions.a
          /\ active_session_id = "a"
          /\ counter = 1
       \/ /\ server = <<>>
          /\ sessions = <<>>
          /\ messages = <<>>
          /\ active_session_id = new_id(1)
          /\ counter = 2
    /\ loading = FALSE
    /\ tasks = <<>>
    /\ fetches = {}
    /\ input = <<>>
    /\ lines = <<>>
    /\ i = 0
    /\ in_list = FALSE
    /\ list_type = ""
    /\ result = <<>>
    /\ pc = "chat"
    /\ trace = <<>>
    /\ pending = <<>>
    /\ streaming = FALSE
    /\ view = NoView
    /\ buffer = <<>>
    /\ events = <<>>

render_vars == <<input, lines, i, in_list, list_type, result, pc, trace, pending, streaming, view>>

\* trace is history here: the session actions of the user so far, which the
\* model bounds.

\* A task of on_send or on_regenerate.  session and placeholder are history:
\* the session that was active and the assistant message that was pushed
\* when the task was spawned; received is the events it has had so far and
\* res what stream_chat returned to it.
StreamTask(kind, session, placeholder) ==
    [kind |-> kind, pc |-> "stream", session |-> session, placeholder |-> placeholder,
     received |-> <<>>, res |-> ""]

\* on_send (172-266), up to the spawn.  ChatInput calls it only when it is
\* not disabled, and it is disabled while loading (chat_input.rs 19-35,
\* chat.rs 640-642).
OnSend ==
    /\ ~loading
    /\ Len(tasks) < MaxStreams
    /\ messages' = messages \o
           <<ChatMessage("User", <<"q">>, FALSE, UserMid(Len(tasks) + 1)),
             ChatMessage("Assistant", <<>>, TRUE, PlaceholderMid(Len(tasks) + 1))>>
    /\ loading' = TRUE
    /\ tasks' = Append(tasks, StreamTask("send", active_session_id, PlaceholderMid(Len(tasks) + 1)))
    /\ UNCHANGED <<sessions, active_session_id, fetches, server, counter>>
    /\ UNCHANGED render_vars
    /\ UNCHANGED sse_vars

\* The bubble of the last assistant message offers the regenerate action
\* when that message is not streaming and has text (chat.rs 611-623,
\* chat_bubble.rs 54-85)
regenerate_offered(msgs) ==
    LET bots == {k \in 1..Len(msgs) : msgs[k].role = "Assistant"}
    IN  /\ bots # {}
        /\ ~msgs[SetMax(bots)].streaming
        /\ msgs[SetMax(bots)].text # <<>>

\* on_regenerate (425-520), up to the spawn
OnRegenerate ==
    /\ regenerate_offered(messages)
    /\ \E k \in 1..Len(messages) : messages[k].role = "User"
    /\ Len(tasks) < MaxStreams
    /\ LET new_msgs == IF messages[Len(messages)].role = "Assistant"
                       THEN SubSeq(messages, 1, Len(messages) - 1)
                       ELSE messages
       IN  messages' = Append(new_msgs,
                              ChatMessage("Assistant", <<>>, TRUE, PlaceholderMid(Len(tasks) + 1)))
    /\ loading' = TRUE
    /\ tasks' = Append(tasks, StreamTask("regenerate", active_session_id,
                                         PlaceholderMid(Len(tasks) + 1)))
    /\ UNCHANGED <<sessions, active_session_id, fetches, server, counter>>
    /\ UNCHANGED render_vars
    /\ UNCHANGED sse_vars

\* stream_chat hands an event to the closure of a task
OnStreamEvent ==
    /\ \E t \in 1..Len(tasks), type \in EventTypes :
          \E val \in EventValues[type] :
              /\ tasks[t].pc = "stream"
              /\ Len(tasks[t].received) < MaxStreamEvents
              /\ messages' = with_last(messages, StreamEvent(type, val))
              /\ tasks' = [tasks EXCEPT ![t].received = Append(@, StreamEvent(type, val))]
    /\ UNCHANGED <<sessions, active_session_id, loading, fetches, server, counter>>
    /\ UNCHANGED render_vars
    /\ UNCHANGED sse_vars

\* stream_chat returns Ok or Err and the task runs to its end (226-264,
\* 490-517): the session is written to the list and sent to the server
OnStreamReturn ==
    /\ \E t \in 1..Len(tasks), res \in {"ok", "err"} :
          LET current_messages == after_stream(messages, res)
          IN  /\ tasks[t].pc = "stream"
              /\ messages' = current_messages
              /\ sessions' = IF tasks[t].kind = "send"
                             THEN update_or_push_session(sessions, active_session_id,
                                                         current_messages)
                             ELSE update_session(sessions, active_session_id, current_messages)
              /\ server' = save_session(server, active_session_id, current_messages)
              /\ tasks' = [tasks EXCEPT ![t].pc = "done", ![t].res = res]
    /\ loading' = FALSE
    /\ UNCHANGED <<active_session_id, fetches, counter>>
    /\ UNCHANGED render_vars
    /\ UNCHANGED sse_vars

\* on_select_session (268-362), up to the spawn of the fetch
OnSelectSession ==
    /\ Len(trace) < MaxSessionActions
    /\ trace' = Append(trace, "select")
    /\ \E k \in 1..Len(sessions) :
          LET id    == sessions[k].id
              sess1 == IF messages # <<>>
                       THEN update_session(sessions, active_session_id, messages)
                       ELSE sessions
              local == sess1[session_index(sess1, id)]
          IN  /\ sessions' = sess1
              /\ server' = IF messages # <<>>
                           THEN save_session(server, active_session_id, messages)
                           ELSE server
              /\ active_session_id' = id
              /\ IF local.messages # <<>>
                 THEN messages' = local.messages /\ fetches' = fetches
                 ELSE messages' = messages /\ fetches' = fetches \cup {id}
    /\ UNCHANGED <<loading, tasks, counter>>
    /\ UNCHANGED <<input, lines, i, in_list, list_type, result, pc, pending, streaming, view>>
    /\ UNCHANGED sse_vars

\* The fetch task of on_select_session (319-361) gets its answer
OnSessionFetched ==
    /\ \E id \in fetches :
          LET k == session_index(server, id)
          IN  /\ fetches' = fetches \ {id}
              /\ IF k # None
                 THEN /\ sessions' = update_session(sessions, id, server[k].messages)
                      /\ messages' = server[k].messages
                 ELSE UNCHANGED <<sessions, messages>>
    /\ UNCHANGED <<active_session_id, loading, tasks, server, counter>>
    /\ UNCHANGED render_vars
    /\ UNCHANGED sse_vars

\* on_new_chat (364-396)
OnNewChat ==
    /\ Len(trace) < MaxSessionActions
    /\ trace' = Append(trace, "new")
    /\ counter <= MaxNewIds
    /\ IF messages # <<>>
       THEN /\ sessions' = update_or_push_session(sessions, active_session_id, messages)
            /\ server' = save_session(server, active_session_id, messages)
       ELSE UNCHANGED <<sessions, server>>
    /\ active_session_id' = new_id(counter)
    /\ counter' = counter + 1
    /\ messages' = <<>>
    /\ UNCHANGED <<loading, tasks, fetches>>
    /\ UNCHANGED <<input, lines, i, in_list, list_type, result, pc, pending, streaming, view>>
    /\ UNCHANGED sse_vars

\* on_delete_session and do_delete_session (398-422): a session of the list
\* is deleted after the confirmation
DoDeleteSession ==
    /\ Len(trace) < MaxSessionActions
    /\ trace' = Append(trace, "delete")
    /\ \E k \in 1..Len(sessions) :
          LET id == sessions[k].id
          IN  /\ sessions' = SelectSeq(sessions, LAMBDA s : s.id # id)
              /\ server' = delete_session(server, id)
              /\ IF id = active_session_id
                 THEN /\ counter <= MaxNewIds
                      /\ active_session_id' = new_id(counter)
                      /\ counter' = counter + 1
                      /\ messages' = <<>>
                 ELSE UNCHANGED <<active_session_id, counter, messages>>
    /\ UNCHANGED <<loading, tasks, fetches>>
    /\ UNCHANGED <<input, lines, i, in_list, list_type, result, pc, pending, streaming, view>>
    /\ UNCHANGED sse_vars

NextChat ==
    \/ OnSend
    \/ OnRegenerate
    \/ OnStreamEvent
    \/ OnStreamReturn
    \/ OnSelectSession
    \/ OnSessionFetched
    \/ OnNewChat
    \/ DoDeleteSession

SpecChat == InitChat /\ [][NextChat]_vars

-----------------------------------------------------------------------------
(* C26, C27, C28: the streams of the chat page. *)

\* The tasks whose stream has not returned
Running == {t \in 1..Len(tasks) : tasks[t].pc = "stream"}

\* Task t gets an event in this step
GetsEvent(t) == t \in Running /\ tasks'[t].received # tasks[t].received

\* Task t ends in this step
Ends(t) == t \in Running /\ tasks'[t].pc = "done"

\* The step changes no message on screen but the placeholder of task t, and
\* adds or removes none
TouchesOnlyPlaceholder(t) ==
    /\ Len(messages') = Len(messages)
    /\ \A k \in 1..Len(messages) :
           messages'[k] # messages[k] => messages[k].mid = tasks[t].placeholder

\* The stream of task t was ended by the server: a done or an error event
HasFinalEvent(t) == \E k \in 1..Len(tasks[t].received) :
                        tasks[t].received[k].type \in {"Done", "Error"}

\* The server holds the placeholder of task t in the session that was active
\* when the task was spawned
SavedUnderOwnSession(t) ==
    \E k \in 1..Len(server') :
        /\ server'[k].id = tasks[t].session
        /\ \E m \in 1..Len(server'[k].messages) :
               server'[k].messages[m].mid = tasks[t].placeholder

\* No other stream runs beside that of task t and none was started after it
IsOnlyStream(t) == Running = {t} /\ t = Len(tasks)

\* C26: an event of a stream, and the end of the stream, change no message
\* but the assistant placeholder that was pushed when the stream was
\* started, whatever the user did with the sessions in the meantime; when
\* the stream has ended with a done or error event and no session was
\* deleted, the exchange is stored on the server under the session that was
\* active when it was started.  (Stated for a stream that runs alone.)
C26_Step ==
    \A t \in 1..Len(tasks) :
        IsOnlyStream(t) =>
            /\ GetsEvent(t) => TouchesOnlyPlaceholder(t)
            /\ Ends(t) => /\ TouchesOnlyPlaceholder(t)
                          /\ (HasFinalEvent(t) /\ "delete" \notin Range(trace))
                                 => SavedUnderOwnSession(t)

C26_StreamTouchesOnlyItsPlaceholder == [][C26_Step]_vars

\* C27: when a task ends it sets loading to false, and the placeholder it
\* was spawned with is not marked streaming any more, however the stream
\* ended.  (Stated for a stream that runs alone, with no session action of
\* the user.)
C27_Step ==
    \A t \in 1..Len(tasks) :
        (Ends(t) /\ IsOnlyStream(t) /\ trace = <<>>)
                => /\ loading' = FALSE
                   /\ \A k \in 1..Len(messages') :
                          messages'[k].mid = tasks[t].placeholder => ~messages'[k].streaming

C27_EndedStreamIsNotStreaming == [][C27_Step]_vars

\* C28: at most one stream is running, and loading is false only when none
\* is.
C28_AtMostOneStream ==
    /\ Cardinality(Running) <= 1
    /\ ~loading => Running = {}

====
